---- MODULE Spec2Model ----
(***************************************************************************)
(* Model of the GotSport schedule scraper (robrange2005/gotsport-scraper-  *)
(* api).  The repository is a sequence of full-program snapshots; every    *)
(* snapshot that the checked properties speak about is modelled as its own *)
(* specification over the same variables:                                  *)
(*   SpecV123  src/unnamed/part_003          v12.3, structured rows        *)
(*   SpecV121  src/main.go:1-444             v12.1, separator lines        *)
(*   SpecV110  src/unnamed/part_002:689-1296 v11.0, mention contexts       *)
(*   SpecGuard the variant with the parse-timeout guard, which is not      *)
(*             under src/ (see the section on it below)                    *)
(*                                                                         *)
(* Text.  A Go string is modelled as a sequence of tokens                  *)
(* [s |-> spelling, n |-> length in bytes].  The alphabet is closed under  *)
(* what the snapshots do with text: no spelling contains "<" or ">" unless *)
(* it is a whole tag, no spelling is a substring of another except where   *)
(* Within says so, and "- " only arises as the token "-" followed by the   *)
(* token " ".  Byte offsets (strings.Index, s[a:b]) are computed from the  *)
(* token lengths, so that windows are cut where the code cuts them.        *)
(***************************************************************************)
EXTENDS Integers, Sequences, FiniteSets, TLC

VARIABLES
    now,        \* time.Now(), as a day number (day 0 = Sunday Aug 24, 2025)
    remote,     \* what the remote site does: [ok, body]
    req,        \* the query of the request: "missing", "ecnl" or "event"
    pc,         \* position of the request handler
    html,       \* string(body) in scrapeGotSportSchedule
    sections,   \* weekendSections in parseWeekendGames
    si,         \* index of the next section the loop over weekendSections takes
    cands,      \* per scanned section, the candidates the segmenter produced
    games,      \* games in parseWeekendGames
    resp,       \* what the HTTP caller received
    task,       \* the extraction task of the guarded variant
    timer,      \* the timer of the guarded variant
    inbox,      \* the channel on which the task delivers its games
    peer        \* a second request in flight at the same time: its own
                \* query, remote outcome, position, locals and response

\* what a request of one of the plain snapshots never touches: the guard's
\* task, timer and channel, and the locals of the other request
guardVars == <<task, timer, inbox, peer>>

vars == <<now, remote, req, pc, html, sections, si, cands, games, resp, task, timer,
          inbox, peer>>

Max(a, b) == IF a > b THEN a ELSE b
Min(a, b) == IF a < b THEN a ELSE b

(***************************************************************************)
(* Tokens                                                                  *)
(***************************************************************************)
T(s, n) == [s |-> s, n |-> n]

tTR       == T("<tr>", 4)
tTRend    == T("</tr>", 5)
tTD       == T("<td>", 4)
tTDend    == T("</td>", 5)
tTeamLink == T("<a href=\"/schedules?team=1\">", 28)
tPitchLink == T("<a href=\"/schedules?pitch=1\">", 29)
tAend     == T("</a>", 4)
tSP       == T(" ", 1)
tNL       == T("\n", 1)
tDash     == T("-", 1)
tScore    == T("2-1", 3)
tId       == T("123", 3)
tReno     == T("Reno Apex U12 Boys", 18)
tRENO     == T("RENO APEX U12 BOYS", 18)
tSac      == T("Sacramento United", 17)
tSatShort == T("Aug 30, 2025", 12)
tSatLong  == T("August 30, 2025", 15)
tSatNum   == T("08/30/2025", 10)
tSunShort == T("Aug 31, 2025", 12)
tSunNum   == T("08/31/2025", 10)
tNextShort == T("Sep 06, 2025", 12)
tNextNum  == T("09/06/2025", 10)
tTimeTZ   == T("1:00PM PDT", 10)
tTimeSp   == T("1:00 PM", 7)
tTime24   == T("14:30", 5)
tVenue    == T("Reno Sports Complex", 19)
tArena    == T("Sacramento Sports Complex", 25)
tField    == T("Field 1", 7)
tDiv      == T("U12 Boys Premier", 16)
\* 6000 bytes of "#": text that no pattern of the program matches
tPad      == T("#pad", 6000)
\* 6000 letters U+023A (2 bytes each); strings.ToLower maps each to U+2C65
\* (3 bytes), so the lowered copy of this token is 18000 bytes long
tPadGrow  == T("#PAD", 12000)
\* 380 bytes of text on one line that no pattern of the program matches
tGap      == T("#gap", 380)

IsPad(tk) == tk.s \in {"#pad", "#PAD", "#lowered-pad", "#gap"}
IsTag(tk) == tk.s \in {"<tr>", "</tr>", "<td>", "</td>", "</a>",
                        "<table>", "</table>", "<div class=\"game\">", "</div>",
                        "<a href=\"/schedules?team=1\">",
                        "<a href=\"/schedules?pitch=1\">"}
IsSpace(tk) == tk.s \in {" ", "\n"}

\* strings.ToLower on one spelling
LowerS(s) ==
    CASE s = "Reno Apex U12 Boys"  -> "reno apex u12 boys"
      [] s = "RENO APEX U12 BOYS"  -> "reno apex u12 boys"
      [] s = "Sacramento United"   -> "sacramento united"
      [] s = "Aug 30, 2025"        -> "aug 30, 2025"
      [] s = "Aug 31, 2025"        -> "aug 31, 2025"
      [] s = "August 30, 2025"     -> "august 30, 2025"
      [] s = "August 31, 2025"     -> "august 31, 2025"
      [] s = "Sep 06, 2025"        -> "sep 06, 2025"
      [] s = "Sep 6, 2025"         -> "sep 6, 2025"
      [] s = "Sep 07, 2025"        -> "sep 07, 2025"
      [] s = "Sep 7, 2025"         -> "sep 7, 2025"
      [] s = "September 06, 2025"  -> "september 06, 2025"
      [] s = "September 07, 2025"  -> "september 07, 2025"
      [] s = "1:00PM PDT"          -> "1:00pm pdt"
      [] s = "1:00 PM"             -> "1:00 pm"
      [] s = "Reno Sports Complex" -> "reno sports complex"
      [] s = "Sacramento Sports Complex" -> "sacramento sports complex"
      [] s = "Field 1"             -> "field 1"
      [] s = "U12 Boys Premier"    -> "u12 boys premier"
      [] s = "#PAD"                -> "#lowered-pad"
      [] OTHER                     -> s

\* the byte length of strings.ToLower of one token
LowerLen(tk) == IF tk.s = "#PAD" THEN (tk.n \div 2) * 3 ELSE tk.n

ToLower(text) == [i \in 1..Len(text) |-> T(LowerS(text[i].s), LowerLen(text[i]))]

\* the bytes of tokens a..b of a text
RECURSIVE SumRange(_, _, _)
SumRange(text, a, b) ==
    IF a > b THEN 0
    ELSE IF a = b THEN text[a].n
    ELSE SumRange(text, a, (a + b) \div 2) + SumRange(text, (a + b) \div 2 + 1, b)

\* the bytes of the first k tokens of a text
SumLen(text, k) == SumRange(text, 1, k)

\* len(text)
TextLen(text) == SumLen(text, Len(text))

\* the least member of a set of indices, 0 if it is empty
FirstOf(H) == IF H = {} THEN 0 ELSE CHOOSE i \in H : \A j \in H : i <= j

\* byte offset of pattern p inside spelling s, -1 when p does not occur in s
OffsetIn(p, s) ==
    CASE p = s -> 0
      [] p = "reno apex" /\ s \in {"reno apex u12 boys"} -> 0
      [] p = "reno" /\ s \in {"reno apex u12 boys", "reno sports complex"} -> 0
      [] p = " " /\ s \in {"Reno Apex U12 Boys", "RENO APEX U12 BOYS",
                            "Reno Sports Complex"} -> 4
      [] p = " " /\ s \in {"Sacramento United", "Sacramento Sports Complex"} -> 10
      [] p = " " /\ s = "Field 1" -> 5
      [] p = " " /\ s = "U12 Boys Premier" -> 3
      [] p = "Complex" /\ s = "Reno Sports Complex" -> 12
      [] p = "Complex" /\ s = "Sacramento Sports Complex" -> 18
      [] p = "Field" /\ s = "Field 1" -> 0
      [] p = "field" /\ s = "field 1" -> 0
      [] p = "premier" /\ s = "u12 boys premier" -> 9
      [] p = "schedule" /\ s \in {"<a href=\"/schedules?team=1\">",
                                   "<a href=\"/schedules?pitch=1\">"} -> 10
      [] OTHER -> -1

Within(p, s) == OffsetIn(p, s) >= 0

\* strings.Contains(text, p)
Contains(text, p) == \E i \in 1..Len(text) : Within(p, text[i].s)

\* strings.Index(text, p): byte offset of the first occurrence, -1 if none
Index(text, p) ==
    LET i == FirstOf({j \in 1..Len(text) : Within(p, text[j].s)})
    IN  IF i = 0 THEN -1 ELSE SumLen(text, i - 1) + OffsetIn(p, text[i].s)

\* the bytes of `<a href="/schedules?pitch=1">` from `schedules?pitch` on,
\* and up to its end
PitchWordToEnd == 19
PitchWordFromStart == 25
HrefFromStart == 8

IsLinkTag(tk) == tk.s \in {"<a href=\"/schedules?team=1\">", "<a href=\"/schedules?pitch=1\">"}

\* the last k bytes of a tag: they end with ">" and hold no "<"; of a pitch
\* link they hold `schedules?pitch` if k is large enough
TagTail(tk, k) ==
    IF tk.s = "<a href=\"/schedules?pitch=1\">" /\ k >= PitchWordToEnd
    THEN T("#pitch>", k) ELSE T("#>", k)

\* the first k bytes of a tag: they start with "<" and hold no ">"
TagHead(tk, k) ==
    IF tk.s = "<a href=\"/schedules?pitch=1\">" /\ k >= PitchWordFromStart
    THEN T("<a href=#pitch", k)
    ELSE IF IsLinkTag(tk) /\ k >= HrefFromStart THEN T("<a href=#", k)
    ELSE T("<#", k)

\* the part of a token that a cut leaves, tail telling that it is the end of
\* the token that is left: filler stays filler, a tag becomes the head or the
\* tail of a tag, anything else a fragment that is no space and no name
CutTok(tk, k, tail) ==
    IF IsPad(tk) THEN T(tk.s, k)
    ELSE IF IsTag(tk) THEN (IF tail THEN TagTail(tk, k) ELSE TagHead(tk, k))
    ELSE T("#frag", k)

\* the byte offsets at which tokens a..b start, token a starting at base
RECURSIVE Offsets(_, _, _, _)
Offsets(text, a, b, base) ==
    IF a > b THEN <<>>
    ELSE IF a = b THEN <<base>>
    ELSE Offsets(text, a, (a + b) \div 2, base)
         \o Offsets(text, (a + b) \div 2 + 1, b, base + SumRange(text, a, (a + b) \div 2))

\* text[start:end] for 0 <= start <= end <= len(text), offsets in bytes:
\* the tokens that overlap [start, end), the first and the last cut to it
Slice(text, start, end) ==
    LET off == Offsets(text, 1, Len(text), 0)
        in  == {i \in 1..Len(text) : off[i] + text[i].n > start /\ off[i] < end}
        lo  == FirstOf(in)
        piece(i) == LET a == Max(off[i], start)
                        b == Min(off[i] + text[i].n, end)
                    IN  IF b - a = text[i].n THEN text[i]
                        ELSE CutTok(text[i], b - a, b = off[i] + text[i].n)
    IN  [k \in 1..Cardinality(in) |-> piece(lo + k - 1)]

\* the spellings of a text: the value a string field of a Game holds
Str(text) == [i \in 1..Len(text) |-> text[i].s]


\* the byte classes the trimming functions remove: Unicode white space for
\* strings.TrimSpace, the cutset ".,;:-" for strings.Trim (of the alphabet
\* only the token "-" is made of cutset bytes)
InClass(tk, cls) ==
    CASE cls = "space" -> IsSpace(tk)
      [] cls = ".,;:-" -> tk.s = "-"

RECURSIVE DropLeading(_, _)
DropLeading(text, cls) ==
    IF text # <<>> /\ InClass(Head(text), cls)
    THEN DropLeading(Tail(text), cls) ELSE text

RECURSIVE DropTrailing(_, _)
DropTrailing(text, cls) ==
    IF text # <<>> /\ InClass(text[Len(text)], cls)
    THEN DropTrailing(SubSeq(text, 1, Len(text) - 1), cls) ELSE text

\* strings.TrimSpace
TrimSpace(text) == DropTrailing(DropLeading(text, "space"), "space")

\* strings.Trim(text, ".,;:-")
TrimPunct(text) == DropTrailing(DropLeading(text, ".,;:-"), ".,;:-")

\* regexp `<[^>]*>` and `(?s)<.*?>` replaced by "": every tag is removed
StripTags(text) == SelectSeq(text, LAMBDA tk : ~IsTag(tk))

\* strings.EqualFold on two field values
EqualFold(a, b) ==
    /\ Len(a) = Len(b)
    /\ \A i \in 1..Len(a) : LowerS(a[i]) = LowerS(b[i])

\* strings.Contains(strings.ToLower(field), p) on a field value
FieldContainsFold(f, p) == \E i \in 1..Len(f) : Within(p, LowerS(f[i]))

(***************************************************************************)
(* Calendar: time.Now(), Weekday, AddDate, Format and Parse on the days    *)
(* the model uses.  Day 0 is Sunday Aug 24, 2025, so day 6 is Saturday     *)
(* Aug 30, 2025 and day 13 is Saturday Sep 6, 2025.                        *)
(***************************************************************************)
Weekday(d) == d % 7

\* the offset without the step from 0 to 7
DaysUntilSaturdayNoWrap(d) == (6 - Weekday(d) + 7) % 7

DaysUntilSaturday(d) ==
    LET k == (6 - Weekday(d) + 7) % 7 IN IF k = 0 THEN 7 ELSE k

NextSaturday(d) == d + DaysUntilSaturday(d)
NextSunday(d) == NextSaturday(d) + 1

\* time.Time.Format(layout) of day d
Format(layout, d) ==
    CASE layout = "Jan 02, 2006" ->
           (CASE d = 6 -> "Aug 30, 2025" [] d = 7 -> "Aug 31, 2025"
              [] d = 13 -> "Sep 06, 2025" [] d = 14 -> "Sep 07, 2025")
      [] layout = "Jan 2, 2006" ->
           (CASE d = 6 -> "Aug 30, 2025" [] d = 7 -> "Aug 31, 2025"
              [] d = 13 -> "Sep 6, 2025" [] d = 14 -> "Sep 7, 2025")
      [] layout = "January 02, 2006" ->
           (CASE d = 6 -> "August 30, 2025" [] d = 7 -> "August 31, 2025"
              [] d = 13 -> "September 06, 2025" [] d = 14 -> "September 07, 2025")
      [] layout = "01/02/2006" ->
           (CASE d = 6 -> "08/30/2025" [] d = 7 -> "08/31/2025"
              [] d = 13 -> "09/06/2025" [] d = 14 -> "09/07/2025")
      [] layout = "2006-01-02" ->
           (CASE d = 6 -> "2025-08-30" [] d = 7 -> "2025-08-31"
              [] d = 13 -> "2025-09-06" [] d = 14 -> "2025-09-07")

\* time.Parse(layout, s): the day, or -1 for a non-nil error.  "Jan" accepts
\* the three-letter month only, "January" the full name only, "02" two digits
ParseDate(layout, s) ==
    CASE layout = "Jan 02, 2006" ->
           (CASE s = "Aug 30, 2025" -> 6 [] s = "Aug 31, 2025" -> 7
              [] s = "Sep 06, 2025" -> 13 [] s = "Sep 07, 2025" -> 14
              [] OTHER -> -1)
      [] layout = "January 02, 2006" ->
           (CASE s = "August 30, 2025" -> 6 [] s = "August 31, 2025" -> 7
              [] s = "September 06, 2025" -> 13 [] s = "September 07, 2025" -> 14
              [] OTHER -> -1)
      [] layout = "01/02/2006" ->
           (CASE s = "08/30/2025" -> 6 [] s = "08/31/2025" -> 7
              [] s = "09/06/2025" -> 13 [] s = "09/07/2025" -> 14
              [] OTHER -> -1)


(***************************************************************************)
(* Game records and what both table- and line-based snapshots share        *)
(***************************************************************************)
\* A string field of a Game is the sequence of the spellings it is made of;
\* <<>> is the empty string
Empty == <<>>
TBD == <<"TBD">>

\* section := html[start:end] around the first occurrence of dateStr; the
\* offset is taken in strings.ToLower(html) and applied to html.  Go panics
\* on html[start:end] with start > end
ExtractSection(doc, dateStr, before, after) ==
    LET index == Index(ToLower(doc), LowerS(dateStr))
        start == Max(index - before, 0)
        end   == Min(index + after, TextLen(doc))
    IN  IF index = -1 THEN [panic |-> FALSE, text |-> <<>>]
        ELSE IF start > end THEN [panic |-> TRUE, text |-> <<>>]
        ELSE [panic |-> FALSE, text |-> Slice(doc, start, end)]

\* the two loops over saturdayFormats and sundayFormats of parseWeekendGames
RECURSIVE CollectSections(_, _, _, _)
CollectSections(doc, patterns, before, after) ==
    IF patterns = <<>> THEN [panic |-> FALSE, secs |-> <<>>]
    ELSE LET hit  == Contains(ToLower(doc), LowerS(Head(patterns)))
             sec  == ExtractSection(doc, Head(patterns), before, after)
             rest == CollectSections(doc, Tail(patterns), before, after)
         IN  IF hit /\ sec.panic THEN [panic |-> TRUE, secs |-> <<>>]
             ELSE IF rest.panic THEN rest
             ELSE [panic |-> FALSE,
                   secs  |-> (IF hit /\ sec.text # <<>> THEN <<sec.text>> ELSE <<>>)
                             \o rest.secs]

(***************************************************************************)
(* v12.3 (src/unnamed/part_003): structured rows                           *)
(***************************************************************************)
SectionBeforeV123 == 5000
SectionAfterV123 == 10000
RowCells == 7

GetNextWeekendDatesV123(d) ==
    [sat |-> << Format("Jan 02, 2006", NextSaturday(d)),
                Format("Jan 2, 2006", NextSaturday(d)),
                Format("January 02, 2006", NextSaturday(d)),
                Format("01/02/2006", NextSaturday(d)) >>,
     sun |-> << Format("Jan 02, 2006", NextSunday(d)),
                Format("Jan 2, 2006", NextSunday(d)),
                Format("January 02, 2006", NextSunday(d)),
                Format("01/02/2006", NextSunday(d)) >>]

ExtractSectionAroundDateV123(doc, dateStr) ==
    ExtractSection(doc, dateStr, SectionBeforeV123, SectionAfterV123)

\* weekendSections of parseWeekendGames, with the whole-document fallback
WeekendSectionsV123(doc, d) ==
    LET f == GetNextWeekendDatesV123(d)
        c == CollectSections(doc, f.sat \o f.sun, SectionBeforeV123, SectionAfterV123)
    IN  IF c.panic THEN c
        ELSE IF Len(c.secs) = 0 THEN [panic |-> FALSE, secs |-> <<doc>>]
        ELSE c

\* the index of the first token spelled s at or after p, 0 if there is none
NextAt(t, p, s) == FirstOf({i \in p..Len(t) : t[i].s = s})

RECURSIVE SkipSpace(_, _)
SkipSpace(t, p) == IF p <= Len(t) /\ IsSpace(t[p]) THEN SkipSpace(t, p + 1) ELSE p

NoMatch == [ok |-> FALSE, cells |-> <<>>, end |-> 0]

\* rowPattern from position p on, with k groups `\s*(<td>.*?</td>)` still to
\* match before `\s*</tr>`.  A lazy `.*?` ends at the first "</td>" after
\* which the rest of the pattern matches, so it runs over "</td>", "<td>",
\* "</tr>" and "<tr>" when a nearer end leads nowhere (leftmost-first match)
RECURSIVE MatchCells(_, _, _), TryCellEnds(_, _, _, _)
MatchCells(t, p, k) ==
    LET q == SkipSpace(t, p)
    IN  IF k = 0
        THEN IF q <= Len(t) /\ t[q].s = "</tr>"
             THEN [ok |-> TRUE, cells |-> <<>>, end |-> q + 1] ELSE NoMatch
        ELSE IF q > Len(t) \/ t[q].s # "<td>" THEN NoMatch
        ELSE TryCellEnds(t, q, q + 1, k)

TryCellEnds(t, q, from, k) ==
    LET e == NextAt(t, from, "</td>")
        r == MatchCells(t, e + 1, k - 1)
    IN  IF e = 0 THEN NoMatch
        ELSE IF r.ok
        THEN [ok |-> TRUE, cells |-> <<SubSeq(t, q, e)>> \o r.cells, end |-> r.end]
        ELSE TryCellEnds(t, q, e + 1, k)

\* rowPattern.FindAllStringSubmatch(section, -1): the groups of every match,
\* leftmost first, each search resuming where the previous match ended
RECURSIVE FindAllRows(_, _)
FindAllRows(t, p) ==
    LET i == NextAt(t, p, "<tr>")
        m == MatchCells(t, i + 1, RowCells)
    IN  IF i = 0 THEN <<>>
        ELSE IF m.ok THEN <<m.cells>> \o FindAllRows(t, m.end)
        ELSE FindAllRows(t, i + 1)

CleanText(text) == TrimPunct(TrimSpace(StripTags(text)))

\* the spellings `[A-Za-z]+ \d{1,2}, \d{4}` matches, and `[\d:]+[AP]M [A-Za-z]+`
MonthDayYear(s) ==
    s \in {"Aug 30, 2025", "August 30, 2025", "Aug 31, 2025", "Sep 06, 2025"}
ClockZone(s) == s \in {"1:00PM PDT"}

\* first index at which the pattern of parseDateTime matches, 0 if none
RECURSIVE DateTimeAt(_, _)
DateTimeAt(f, i) ==
    IF i + 2 > Len(f) THEN 0
    ELSE IF MonthDayYear(f[i]) /\ f[i + 1] = " " /\ ClockZone(f[i + 2]) THEN i
    ELSE DateTimeAt(f, i + 1)

ParseDateTime(dateTime) ==
    LET i == DateTimeAt(dateTime, 1)
        short == IF i = 0 THEN -1 ELSE ParseDate("Jan 02, 2006", dateTime[i])
        long  == IF i = 0 THEN -1 ELSE ParseDate("January 02, 2006", dateTime[i])
        day   == IF short # -1 THEN short ELSE long
    IN  IF i # 0 /\ day # -1
        THEN [date |-> <<Format("2006-01-02", day)>>, time |-> <<dateTime[i + 2]>>]
        ELSE [date |-> Empty, time |-> TBD]

IsDuplicateGameV123(existingGames, newGame) ==
    \E k \in 1..Len(existingGames) :
        /\ existingGames[k].Date = newGame.Date
        /\ existingGames[k].Time = newGame.Time
        /\ EqualFold(existingGames[k].HomeTeam, newGame.HomeTeam)

\* the Game the loop body builds from one match
RowGameV123(match) ==
    LET pd == ParseDateTime(Str(CleanText(match[2])))
    IN  [HomeTeam    |-> Str(CleanText(match[3])),
         AwayTeam    |-> Str(CleanText(match[5])),
         Date        |-> pd.date,
         Time        |-> pd.time,
         Location    |-> Str(CleanText(match[6])),
         Division    |-> Str(CleanText(match[7])),
         Competition |-> Str(CleanText(match[7]))]

\* a home game check that does not look at the result cell
IsHomeRowAnyResult(match) ==
    FieldContainsFold(Str(CleanText(match[3])), "reno apex")

\* the home game check of the loop body
IsHomeRowV123(match) ==
    /\ FieldContainsFold(Str(CleanText(match[3])), "reno apex")
    /\ Str(CleanText(match[4])) = <<"-">>

RECURSIVE AddRowGamesV123(_, _)
AddRowGamesV123(matches, acc) ==
    IF matches = <<>> THEN acc
    ELSE LET game == RowGameV123(Head(matches))
             keep == /\ IsHomeRowV123(Head(matches))
                     /\ game.Date # Empty
                     /\ game.Time # TBD
                     /\ ~IsDuplicateGameV123(acc, game)
         IN  AddRowGamesV123(Tail(matches), IF keep THEN Append(acc, game) ELSE acc)

RowMatches(section) == FindAllRows(section, 1)

FindRenoApexGamesInSectionV123(section) ==
    AddRowGamesV123(RowMatches(section), <<>>)


(***************************************************************************)
(* Documents the remote site may serve                                     *)
(***************************************************************************)
MaxBlocks == 3

Cell(x) == <<tTD>> \o x \o <<tTDend>>

\* the first five cells of a schedule row: match id, date and time, home
\* team, result marker, away team
RowHead(date, home, result, away) ==
    <<tTR>> \o Cell(<<tId>>) \o Cell(<<date, tSP, tTimeTZ>>)
        \o Cell(<<tTeamLink, home, tAend>>) \o Cell(<<result>>)
        \o Cell(<<tTeamLink, away, tAend>>)

\* a whole row of seven cells on one line: RowHead, location, division
Row7(date, home, result, away) ==
    RowHead(date, home, result, away)
        \o Cell(<<tPitchLink, tVenue, tSP, tDash, tSP, tField, tAend>>)
        \o Cell(<<tTeamLink, tDiv, tAend>>) \o <<tTRend, tNL>>

\* a row that stops after five cells
Row5(date, home, result, away) ==
    RowHead(date, home, result, away) \o <<tTRend, tNL>>

HomeRow      == Row7(tSatShort, tReno, tDash, tSac)
HomeRowUpper == Row7(tSatShort, tRENO, tDash, tSac)
AwayRow      == Row7(tSatShort, tSac, tDash, tReno)
PlayedRow    == Row7(tSatShort, tReno, tScore, tSac)
NextWeekRow  == Row7(tNextShort, tReno, tDash, tSac)
ShortRow     == Row5(tSatShort, tSac, tDash, tSac)
HeadSatLong  == <<tSatLong, tNL>>
HeadSun      == <<tSunShort, tNL>>
PadLine      == <<tPad, tNL>>
PadGrowLine  == <<tPadGrow, tNL>>

TableBlocks ==
    {HomeRow, HomeRowUpper, AwayRow, PlayedRow, NextWeekRow, ShortRow,
     HeadSatLong, HeadSun, PadLine, PadGrowLine}

RECURSIVE Flatten(_)
Flatten(blocks) ==
    IF blocks = <<>> THEN <<>> ELSE Head(blocks) \o Flatten(Tail(blocks))

DocsOf(blocks) ==
    {Flatten(b) : b \in UNION {[1..k -> blocks] : k \in 0..MaxBlocks}}

NoDoc == <<>>
Pending == [status |-> 0, kind |-> "pending", body |-> <<>>]

\* the days on which the request is made: a Friday and the Saturday after it
RequestDays == {5, 6}

\* the second request when there is none: its handler has returned
NoPeer ==
    [req |-> "missing", remote |-> [ok |-> FALSE, body |-> NoDoc], pc |-> "done",
     html |-> NoDoc, sections |-> <<>>, si |-> 1, games |-> <<>>,
     resp |-> [status |-> 400, kind |-> "error", body |-> <<>>]]

\* every day of the week before Saturday Aug 30, 2025, and that Saturday
WeekDays == 0..6

\* one request on arrival on one of days, the remote site serving one of
\* docs or failing
InitArrival(days, docs) ==
    /\ now \in days
    /\ \/ /\ req = "event"
          /\ remote \in [ok : {TRUE}, body : docs] \cup {[ok |-> FALSE, body |-> NoDoc]}
       \/ /\ req \in {"missing", "ecnl"}
          /\ remote = [ok |-> FALSE, body |-> NoDoc]
    /\ pc = "handler"
    /\ html = NoDoc
    /\ sections = <<>>
    /\ si = 1
    /\ cands = <<>>
    /\ games = <<>>
    /\ resp = Pending
    /\ task = "idle"
    /\ timer = "off"
    /\ inbox = <<>>

InitRequest(docs) == InitArrival(RequestDays, docs)

InitWith(docs) == InitRequest(docs) /\ peer = NoPeer

(***************************************************************************)
(* The request, step by step                                               *)
(***************************************************************************)
\* scheduleHandler up to the call of a scraper: 400 on a missing parameter,
\* scrapeECNLSchedule (an empty list, no error) for "ecnl".  (v12.3 declares
\* the handler's second parameter as *http.ResponseWriter, which does not
\* compile; it is read as *http.Request, as every other snapshot has it.)
HandleRequest ==
    /\ pc = "handler"
    /\ IF req = "missing"
       THEN /\ resp' = [status |-> 400, kind |-> "error", body |-> <<>>]
            /\ pc' = "done"
       ELSE /\ resp' = resp
            /\ pc' = IF req = "ecnl" THEN "respond" ELSE "fetch"
    /\ UNCHANGED <<now, remote, req, html, sections, si, cands, games>>
    /\ UNCHANGED guardVars

\* a scraper that goes on to parse whatever the fetch left behind
FetchIgnoresFailure ==
    /\ pc = "fetch"
    /\ html' = remote.body
    /\ pc' = "parse"
    /\ UNCHANGED <<now, remote, req, sections, si, cands, games, resp>>
    /\ UNCHANGED guardVars

\* scrapeGotSportSchedule up to html := string(body): any failure of the
\* request, a status other than 200 or a failed read returns an error
Fetch ==
    /\ pc = "fetch"
    /\ IF remote.ok
       THEN html' = remote.body /\ pc' = "parse"
       ELSE html' = html /\ pc' = "failed"
    /\ UNCHANGED <<now, remote, req, sections, si, cands, games, resp>>
    /\ UNCHANGED guardVars

\* parseWeekendGames of v12.3 up to the loop over weekendSections
LocateWindowsV123 ==
    /\ pc = "parse"
    /\ LET w == WeekendSectionsV123(html, now)
       IN  IF w.panic
           THEN sections' = sections /\ pc' = "panic"
           ELSE sections' = w.secs /\ pc' = "scan"
    /\ UNCHANGED <<now, remote, req, html, si, cands, games, resp>>
    /\ UNCHANGED guardVars

\* one iteration of `for _, section := range weekendSections`
ScanSectionV123 ==
    /\ pc = "scan"
    /\ si <= Len(sections)
    /\ cands' = Append(cands, RowMatches(sections[si]))
    /\ games' = games \o FindRenoApexGamesInSectionV123(sections[si])
    /\ si' = si + 1
    /\ UNCHANGED <<now, remote, req, pc, html, sections, resp>>
    /\ UNCHANGED guardVars

\* the loop is over: parseWeekendGames and scrapeGotSportSchedule return
ReturnGames ==
    /\ pc = "scan"
    /\ si > Len(sections)
    /\ pc' = "respond"
    /\ UNCHANGED <<now, remote, req, html, sections, si, cands, games, resp>>
    /\ UNCHANGED guardVars

\* json.NewEncoder(w).Encode(games) with err == nil
Respond ==
    /\ pc = "respond"
    /\ resp' = [status |-> 200, kind |-> "games", body |-> games]
    /\ pc' = "done"
    /\ UNCHANGED <<now, remote, req, html, sections, si, cands, games>>
    /\ UNCHANGED guardVars

\* v12.3: err != nil is answered with http.Error(w, ..., 500)
RespondErrorV123 ==
    /\ pc = "failed"
    /\ resp' = [status |-> 500, kind |-> "error", body |-> <<>>]
    /\ pc' = "done"
    /\ UNCHANGED <<now, remote, req, html, sections, si, cands, games>>
    /\ UNCHANGED guardVars

\* a panic in the handler's goroutine: net/http recovers it and closes the
\* connection, the caller receives no response
Recover ==
    /\ pc = "panic"
    /\ resp' = [status |-> 0, kind |-> "aborted", body |-> <<>>]
    /\ pc' = "done"
    /\ UNCHANGED <<now, remote, req, html, sections, si, cands, games>>
    /\ UNCHANGED guardVars

InitV123 == InitWith(DocsOf(TableBlocks))

NextV123 ==
    \/ HandleRequest
    \/ Fetch
    \/ LocateWindowsV123
    \/ ScanSectionV123
    \/ ReturnGames
    \/ Respond
    \/ RespondErrorV123
    \/ Recover

SpecV123 == InitV123 /\ [][NextV123]_vars

\* v12.3 on pages made of schedule rows of the tracked team at home: not yet
\* played, played, and one whose date cell is written in digits
NumDateRow == Row7(tSatNum, tReno, tDash, tSac)

RowBlocks == {HomeRow, PlayedRow, NumDateRow, HeadSatLong, PadGrowLine}

InitRowsV123 == InitWith(DocsOf(RowBlocks))

SpecRowsV123 == InitRowsV123 /\ [][NextV123]_vars

\* sanity: no window is ever cut through a tag or a name
NoFragment ==
    \A k \in 1..Len(sections) : \A i \in 1..Len(sections[k]) : sections[k][i].s # "#frag"


(***************************************************************************)
(* Properties of v12.3                                                     *)
(***************************************************************************)
\* the request was for an event, the fetch succeeded and the handler is done
Served == pc = "done" /\ req = "event" /\ remote.ok

\* the record of example scenario 1
ScenarioGame ==
    [HomeTeam    |-> <<"Reno Apex U12 Boys">>,
     AwayTeam    |-> <<"Sacramento United">>,
     Date        |-> <<"2025-08-30">>,
     Time        |-> <<"1:00PM PDT">>,
     Location    |-> <<"Reno Sports Complex", " ", "-", " ", "Field 1">>,
     Division    |-> <<"U12 Boys Premier">>,
     Competition |-> <<"U12 Boys Premier">>]

\* C1: a document that is one 7-cell row with the target Saturday and a
\* time in its date cell, the tracked team in its home cell and "-" in its
\* result cell yields exactly one record, made of the texts of its cells.
C1_StructuredRowYieldsRecord ==
    (Served /\ html = HomeRow /\ NextSaturday(now) = 6)
        => (resp.kind = "games" /\ resp.body = <<ScenarioGame>>)

\* the j-th smallest member of a set of indices
Nth(S, j) == CHOOSE i \in S : Cardinality({x \in S : x < i}) = j - 1

\* the "<td>" tokens of the row that starts at p and ends at the next "</tr>"
RowCellStarts(t, p) ==
    {i \in p..NextAt(t, p, "</tr>") : t[i].s = "<td>"}

\* a row of its own: "<tr>", seven cells, "</tr>", and no other row inside
WellFormedRowAt(t, p) ==
    /\ t[p].s = "<tr>"
    /\ NextAt(t, p, "</tr>") # 0
    /\ Cardinality(RowCellStarts(t, p)) = RowCells
    /\ \A i \in (p + 1)..NextAt(t, p, "</tr>") : t[i].s # "<tr>"

\* the seven cells of that row, each from its "<td>" to its "</td>"
OwnCells(t, p) ==
    [j \in 1..RowCells |->
        SubSeq(t, Nth(RowCellStarts(t, p), j),
                  NextAt(t, Nth(RowCellStarts(t, p), j), "</td>"))]

\* C9: a row with fewer than seven cells is skipped on its own: every
\* well-formed 7-cell row of a scanned window, the one right after a short
\* row included, is a candidate with its own seven cells.
C9_ShortRowSkippedAlone ==
    \A k \in 1..Len(cands) : \A p \in 1..Len(sections[k]) :
        WellFormedRowAt(sections[k], p)
            => \E m \in 1..Len(cands[k]) : cands[k][m] = OwnCells(sections[k], p)

\* C10: every document that was fetched is answered with a list of games
\* and status 200: a parse that finds nothing is neither an error nor a panic.
C10_ParseMissIsNoError ==
    Served => (resp.status = 200 /\ resp.kind = "games")

\* the text of the result cell of a candidate row, as the page shows it
ResultMarker(match) == Str(TrimSpace(StripTags(match[4])))

\* C17: a 7-cell row whose result cell shows anything but "-" yields no
\* record: a record with the fields of such a row is among the games only
\* if a row of the same window that does show "-" has the same fields.
C17_PlayedRowsExcluded ==
    \A k \in 1..Len(cands) : \A m \in 1..Len(cands[k]) :
        (/\ ResultMarker(cands[k][m]) # <<"-">>
         /\ \E g \in 1..Len(games) : games[g] = RowGameV123(cands[k][m]))
            => \E n \in 1..Len(cands[k]) :
                  /\ ResultMarker(cands[k][n]) = <<"-">>
                  /\ RowGameV123(cands[k][n]) = RowGameV123(cands[k][m])

\* the window of the target Saturday was scanned and held a row with a
\* score in its result cell, the tracked team in its home cell and the
\* target Saturday in its date cell, and no not-yet-played row; the caller
\* has its answer
C17_PlayedHomeRowScanned ==
    /\ Served
    /\ resp.kind = "games"
    /\ \E k \in 1..Len(cands) :
          /\ \E m \in 1..Len(cands[k]) :
                /\ ResultMarker(cands[k][m]) = <<"2-1">>
                /\ IsHomeRowAnyResult(cands[k][m])
                /\ RowGameV123(cands[k][m]).Date = <<Format("2006-01-02", NextSaturday(now))>>
          /\ \A n \in 1..Len(cands[k]) : ResultMarker(cands[k][n]) # <<"-">>

\* C20: a home-game candidate (tracked team in the home cell, "-" in the
\* result cell) whose date or time cannot be extracted still has a record
\* among the games of its window, with the sentinel in the unresolved field.
C20_PartialRecordKept ==
    \A k \in 1..Len(cands) : \A m \in 1..Len(cands[k]) :
        (/\ IsHomeRowAnyResult(cands[k][m])
         /\ ResultMarker(cands[k][m]) = <<"-">>
         /\ \/ RowGameV123(cands[k][m]).Date = Empty
            \/ RowGameV123(cands[k][m]).Time = TBD)
            => \E g \in 1..Len(games) :
                  /\ EqualFold(games[g].HomeTeam, RowGameV123(cands[k][m]).HomeTeam)
                  /\ games[g].Date = RowGameV123(cands[k][m]).Date
                  /\ games[g].Time = RowGameV123(cands[k][m]).Time

\* form with letter case ignored; -1 if there is none
IndexFold(doc, form) ==
    LET i == FirstOf({j \in 1..Len(doc) : Within(LowerS(form), LowerS(doc[j].s))})
    IN  IF i = 0 THEN -1
        ELSE SumLen(doc, i - 1) + OffsetIn(LowerS(form), LowerS(doc[i].s))

\* the window of a form is the one the offset of its first occurrence gives
WindowAsSpecified(doc, form, before, after) ==
    LET i == IndexFold(doc, form)
        w == ExtractSection(doc, form, before, after)
    IN  IF i = -1 THEN ~w.panic /\ w.text = <<>>
        ELSE /\ ~w.panic
             /\ w.text = Slice(doc, Max(0, i - before), Min(TextLen(doc), i + after))

\* C16: for the fetched document and every date form, extractSectionAroundDate
\* returns document[max(0, i-5000) .. min(len, i+10000)) around the offset i
\* of the form's first occurrence, letter case ignored, with both bounds
\* inside the document, and the empty window for a form that does not occur.
C16_WindowBounds ==
    (req = "event" /\ remote.ok /\ pc \in {"scan", "panic", "respond", "done"})
        => \A k \in 1..4 :
              /\ WindowAsSpecified(html, GetNextWeekendDatesV123(now).sat[k],
                                   SectionBeforeV123, SectionAfterV123)
              /\ WindowAsSpecified(html, GetNextWeekendDatesV123(now).sun[k],
                                   SectionBeforeV123, SectionAfterV123)


(***************************************************************************)
(* v12.1 (src/main.go, lines 1-444): separator lines                       *)
(***************************************************************************)
SectionBeforeV121 == 3000
SectionAfterV121 == 6000
ContextLines == 5

GetNextWeekendDatesV121(d) ==
    [sat |-> << Format("January 02, 2006", NextSaturday(d)),
                Format("01/02/2006", NextSaturday(d)),
                Format("Jan 02, 2006", NextSaturday(d)) >>,
     sun |-> << Format("January 02, 2006", NextSunday(d)),
                Format("01/02/2006", NextSunday(d)),
                Format("Jan 02, 2006", NextSunday(d)) >>]

ExtractSectionAroundDateV121(doc, dateStr) ==
    ExtractSection(doc, dateStr, SectionBeforeV121, SectionAfterV121)

\* weekendSections of parseWeekendGames: nothing is added when no date is found
WeekendSectionsV121(doc, d) ==
    LET f == GetNextWeekendDatesV121(d)
    IN  CollectSections(doc, f.sat \o f.sun, SectionBeforeV121, SectionAfterV121)

\* strings.Split(text, "\n")
RECURSIVE SplitLines(_)
SplitLines(text) ==
    LET i == NextAt(text, 1, "\n")
    IN  IF i = 0 THEN <<text>>
        ELSE <<SubSeq(text, 1, i - 1)>> \o SplitLines(SubSeq(text, i + 1, Len(text)))

\* the index of the first "- " at or after p: a "-" followed by a space
SepAt(line, p) ==
    FirstOf({j \in p..(Len(line) - 1) : line[j].s = "-" /\ line[j + 1].s = " "})

\* strings.Split(line, "- ")
RECURSIVE SplitSep(_)
SplitSep(line) ==
    LET i == SepAt(line, 1)
    IN  IF i = 0 THEN <<line>>
        ELSE <<SubSeq(line, 1, i - 1)>> \o SplitSep(SubSeq(line, i + 2, Len(line)))

\* strings.Join(lines[a:b], "\n") with 0-based a and b
RECURSIVE JoinLines(_, _, _)
JoinLines(lines, a, b) ==
    IF a >= b THEN <<>>
    ELSE IF a + 1 = b THEN lines[b]
    ELSE JoinLines(lines, a, b - 1) \o <<tNL>> \o lines[b]

ExtractTeamNameFromText(text) == TrimPunct(TrimSpace(StripTags(text)))


\* the three datePatterns, compiled with (?i).  The first two spell the month
\* as the literal words "January" and "Jan", so of the dates a document of
\* the model holds they match none; the third matches the numeric dates
DatePatternsV121 == <<"January", "Jan", "numeric">>

MatchesDatePattern(p, s) ==
    CASE p = "numeric" -> s \in {"08/30/2025", "08/31/2025", "09/06/2025", "09/07/2025"}
      [] OTHER -> FALSE

\* re.FindStringSubmatch(context) for one pattern and the chain of time.Parse
\* calls on matches[0]: the day, or -1 when nothing matched or err != nil
DateByPattern(context, p) ==
    LET i == FirstOf({j \in 1..Len(context) : MatchesDatePattern(p, context[j].s)})
        a == ParseDate("January 02, 2006", context[i].s)
        b == IF a # -1 THEN a ELSE ParseDate("Jan 02, 2006", context[i].s)
        c == IF b # -1 THEN b ELSE ParseDate("01/02/2006", context[i].s)
    IN  IF i = 0 THEN -1 ELSE c

RECURSIVE FirstParsedDate(_, _)
FirstParsedDate(context, patterns) ==
    IF patterns = <<>> THEN -1
    ELSE LET day == DateByPattern(context, Head(patterns))
         IN  IF day # -1 THEN day ELSE FirstParsedDate(context, Tail(patterns))

ContainsAnyFold(context, patterns) ==
    \E k \in 1..Len(patterns) : Contains(ToLower(context), LowerS(patterns[k]))

FindDateInContextV121(context, d) ==
    LET day == FirstParsedDate(context, DatePatternsV121)
        f   == GetNextWeekendDatesV121(d)
    IN  << Format("2006-01-02",
                  IF day # -1 THEN day
                  ELSE IF ContainsAnyFold(context, f.sat) THEN NextSaturday(d)
                  ELSE IF ContainsAnyFold(context, f.sun) THEN NextSunday(d)
                  ELSE NextSaturday(d)) >>

\* fmt.Sprintf("%s %s", time, ampm) and the zone for the first pattern of
\* timePatterns, `(\d{1,2}:\d{2})\s*(AM|PM)\s*(PDT|PST|PT)?`; "" if no match.
\* The second pattern matches nothing the first does not, the third has no
\* groups, so len(matches) >= 3 holds for the first pattern only
ClockOf(s) ==
    CASE s = "1:00PM PDT" -> "1:00 PM PDT"
      [] s = "1:00 PM"    -> "1:00 PM"
      [] OTHER            -> ""

FindTimeInContextV121(context) ==
    LET i == FirstOf({j \in 1..Len(context) : ClockOf(context[j].s) # ""})
    IN  IF i = 0 THEN TBD ELSE <<ClockOf(context[i].s)>>

IsPitchLink(tk) == tk.s = "<a href=\"/schedules?pitch=1\">"

\* the first location pattern at token i: a pitch link, `[^<]+`, "</a>"
PitchTextAt(context, i) ==
    LET e == FirstOf({j \in (i + 1)..Len(context) : IsTag(context[j])})
    IN  IF IsPitchLink(context[i]) /\ e > i + 1 /\ context[e].s = "</a>"
        THEN TrimSpace(SubSeq(context, i + 1, e - 1)) ELSE <<>>

\* the words (Park, Complex, Field, ...) the other location patterns and the
\* line fallback look for
HasLocationWord(tk) == Within("Complex", tk.s) \/ Within("Field", tk.s)

\* findLocationInContext: the text of the first pitch link with
\* 5 < len(location) < 100.  In the documents of the model a location word
\* occurs in the text of a pitch link only (LocationWordsInLinks), so when
\* the first pattern finds nothing the others and the fallback find nothing
FindLocationInContextV121(context) ==
    LET i == FirstOf({j \in 1..Len(context) :
                        /\ TextLen(PitchTextAt(context, j)) > 5
                        /\ TextLen(PitchTextAt(context, j)) < 100})
    IN  IF i = 0 THEN TBD ELSE Str(PitchTextAt(context, i))


\* the spellings made of bytes of the class [A-Za-z0-9\s\-/] only
InDivisionClass(s) ==
    s \in {"Reno Apex U12 Boys", "RENO APEX U12 BOYS", "Sacramento United",
           "Reno Sports Complex", "Field 1", "U12 Boys Premier", "123", "2-1",
           "08/30/2025", "09/06/2025", " ", "\n", "-"}

\* the first run of bytes of that class inside one token: whether there is
\* one, whether it starts with the token, whether it reaches the token's end,
\* and the run itself
DivisionRun(tk) ==
    IF InDivisionClass(tk.s)
    THEN [some |-> TRUE, atStart |-> TRUE, toEnd |-> TRUE, run |-> tk]
    ELSE CASE tk.s = "August 30, 2025" ->
                [some |-> TRUE, atStart |-> TRUE, toEnd |-> FALSE, run |-> T("August 30", 9)]
           [] tk.s = "Aug 30, 2025" ->
                [some |-> TRUE, atStart |-> TRUE, toEnd |-> FALSE, run |-> T("Aug 30", 6)]
           [] tk.s = "Aug 31, 2025" ->
                [some |-> TRUE, atStart |-> TRUE, toEnd |-> FALSE, run |-> T("Aug 31", 6)]
           [] tk.s = "Sep 06, 2025" ->
                [some |-> TRUE, atStart |-> TRUE, toEnd |-> FALSE, run |-> T("Sep 06", 6)]
           [] tk.s \in {"1:00 PM", "1:00PM PDT"} ->
                [some |-> TRUE, atStart |-> TRUE, toEnd |-> FALSE, run |-> T("1", 1)]
           [] tk.s \in {"<a href=\"/schedules?pitch=1\">", "<a href=\"/schedules?team=1\">"} ->
                [some |-> TRUE, atStart |-> FALSE, toEnd |-> FALSE, run |-> T("a href", 6)]
           [] tk.s = "</a>" ->
                [some |-> TRUE, atStart |-> FALSE, toEnd |-> FALSE, run |-> T("/a", 2)]
           [] tk.s = "<tr>" ->
                [some |-> TRUE, atStart |-> FALSE, toEnd |-> FALSE, run |-> T("tr", 2)]
           [] tk.s = "<td>" ->
                [some |-> TRUE, atStart |-> FALSE, toEnd |-> FALSE, run |-> T("td", 2)]
           [] tk.s = "</tr>" ->
                [some |-> TRUE, atStart |-> FALSE, toEnd |-> FALSE, run |-> T("/tr", 3)]
           [] tk.s = "</td>" ->
                [some |-> TRUE, atStart |-> FALSE, toEnd |-> FALSE, run |-> T("/td", 3)]
           [] OTHER ->
                [some |-> FALSE, atStart |-> FALSE, toEnd |-> FALSE, run |-> T("", 0)]

\* how a run that reached the end of token i - 1 goes on from token i
RECURSIVE RunOnFrom(_, _)
RunOnFrom(context, i) ==
    IF i > Len(context) THEN <<>>
    ELSE LET r == DivisionRun(context[i])
         IN  IF ~(r.some /\ r.atStart) THEN <<>>
             ELSE IF r.toEnd THEN <<r.run>> \o RunOnFrom(context, i + 1)
             ELSE <<r.run>>

\* the leftmost match of `[A-Za-z0-9\s\-/]+` in the context
FirstDivisionRun(context) ==
    LET i == FirstOf({j \in 1..Len(context) : DivisionRun(context[j]).some})
        r == DivisionRun(context[i])
    IN  IF i = 0 THEN <<>>
        ELSE IF r.toEnd THEN <<r.run>> \o RunOnFrom(context, i + 1)
        ELSE <<r.run>>

\* findDivisionInContext: the first pattern needs "NPL" and the third one of
\* the words Division, League, Group, which no document of the model holds;
\* the second yields the leftmost run of its class if that is longer than 3
FindDivisionInContextV121(context) ==
    LET division == TrimSpace(FirstDivisionRun(context))
    IN  IF TextLen(division) > 3 THEN Str(division) ELSE <<"League">>

\* a duplicate test that does not compare the away teams
IsDuplicateIgnoringAway(existingGames, newGame) ==
    \E k \in 1..Len(existingGames) :
        /\ existingGames[k].Date = newGame.Date
        /\ existingGames[k].Time = newGame.Time
        /\ EqualFold(existingGames[k].HomeTeam, newGame.HomeTeam)

IsDuplicateGameV121(existingGames, newGame) ==
    \E k \in 1..Len(existingGames) :
        /\ existingGames[k].Date = newGame.Date
        /\ existingGames[k].Time = newGame.Time
        /\ EqualFold(existingGames[k].HomeTeam, newGame.HomeTeam)
        /\ EqualFold(existingGames[k].AwayTeam, newGame.AwayTeam)

ExtractGameFromLine(gameLine, context, d) ==
    LET parts == SplitSep(gameLine)
    IN  [HomeTeam    |-> IF Len(parts) >= 2
                         THEN Str(ExtractTeamNameFromText(TrimSpace(parts[1]))) ELSE Empty,
         AwayTeam    |-> IF Len(parts) >= 2
                         THEN Str(ExtractTeamNameFromText(TrimSpace(parts[2]))) ELSE Empty,
         Date        |-> FindDateInContextV121(context, d),
         Time        |-> FindTimeInContextV121(context),
         Location    |-> FindLocationInContextV121(context),
         Division    |-> FindDivisionInContextV121(context),
         Competition |-> FindDivisionInContextV121(context)]

\* a home test that takes the tracked team on either side of the separator
IsHomeLineAnySide(line) ==
    /\ SepAt(line, 1) # 0
    /\ Contains(ToLower(line), "reno apex")

\* the two tests a line passes before a Game is built from it: it holds
\* "- " and "reno apex", and the part before the first "- " holds "reno apex"
IsHomeLineV121(line) ==
    /\ SepAt(line, 1) # 0
    /\ Contains(ToLower(line), "reno apex")
    /\ Contains(ToLower(TrimSpace(SplitSep(line)[1])), "reno apex")

\* lines[start:end] around 0-based line i, joined
LineContext(lines, i) ==
    JoinLines(lines, Max(i - ContextLines, 0), Min(i + ContextLines, Len(lines)))

\* the loop of findRenoApexGamesInSection from the k-th line on
RECURSIVE AddLineGamesV121(_, _, _, _)
AddLineGamesV121(lines, k, acc, d) ==
    IF k > Len(lines) THEN acc
    ELSE LET game == ExtractGameFromLine(lines[k], LineContext(lines, k - 1), d)
             keep == /\ IsHomeLineV121(lines[k])
                     /\ game.HomeTeam # Empty
                     /\ ~IsDuplicateGameV121(acc, game)
         IN  AddLineGamesV121(lines, k + 1, IF keep THEN Append(acc, game) ELSE acc, d)

FindRenoApexGamesInSectionV121(section, d) ==
    AddLineGamesV121(SplitLines(section), 1, <<>>, d)

\* the lines of a section that pass the home test
HomeLines(section) == SelectSeq(SplitLines(section), IsHomeLineV121)


\* lines of a schedule page as v12.1 reads it: fixtures "home - away", dates,
\* a kick-off time, a pitch link, filler
MatchLine   == <<tReno, tSP, tDash, tSP, tSac, tNL>>
AwayLine    == <<tSac, tSP, tDash, tSP, tReno, tNL>>
DerbyLine   == <<tReno, tSP, tDash, tSP, tRENO, tNL>>
OpenLine    == <<tReno, tSP, tDash, tSP, tNL>>
SatNumLine  == <<tSatNum, tNL>>
NextNumLine == <<tNextNum, tNL>>
SunNumLine  == <<tSunNum, tNL>>
TimeLine    == <<tTimeSp, tNL>>
PitchLine   == <<tPitchLink, tVenue, tSP, tDash, tSP, tField, tAend, tNL>>

LineBlocks ==
    {MatchLine, AwayLine, DerbyLine, OpenLine, HeadSatLong, SatNumLine, HeadSun,
     NextNumLine, SunNumLine, TimeLine, PitchLine, PadLine, PadGrowLine}

\* parseWeekendGames of v12.1 up to the loop over weekendSections
LocateWindowsV121 ==
    /\ pc = "parse"
    /\ LET w == WeekendSectionsV121(html, now)
       IN  IF w.panic
           THEN sections' = sections /\ pc' = "panic"
           ELSE sections' = w.secs /\ pc' = "scan"
    /\ UNCHANGED <<now, remote, req, html, si, cands, games, resp>>
    /\ UNCHANGED guardVars

\* one iteration of `for _, section := range weekendSections`
ScanSectionV121 ==
    /\ pc = "scan"
    /\ si <= Len(sections)
    /\ cands' = Append(cands, HomeLines(sections[si]))
    /\ games' = games \o FindRenoApexGamesInSectionV121(sections[si], now)
    /\ si' = si + 1
    /\ UNCHANGED <<now, remote, req, pc, html, sections, resp>>
    /\ UNCHANGED guardVars

\* v12.1: err != nil is logged, games = []Game{} is encoded with status 200
RespondErrorV121 ==
    /\ pc = "failed"
    /\ resp' = [status |-> 200, kind |-> "games", body |-> <<>>]
    /\ pc' = "done"
    /\ UNCHANGED <<now, remote, req, html, sections, si, cands, games>>
    /\ UNCHANGED guardVars

InitV121 == InitWith(DocsOf(LineBlocks))

NextV121 ==
    \/ HandleRequest
    \/ Fetch
    \/ LocateWindowsV121
    \/ ScanSectionV121
    \/ ReturnGames
    \/ Respond
    \/ RespondErrorV121
    \/ Recover

SpecV121 == InitV121 /\ [][NextV121]_vars

\* v12.1 asked on every day of a week, on pages that hold the dates of this
\* Saturday and of the next
WeekBlocks == {MatchLine, SatNumLine, NextNumLine, HeadSatLong, PadGrowLine}

InitWeek == InitArrival(WeekDays, DocsOf(WeekBlocks)) /\ peer = NoPeer

SpecWeek == InitWeek /\ [][NextV121]_vars

\* sanity: in every window a location word stands inside an intact pitch link
LocationWordsInLinks ==
    \A k \in 1..Len(sections) : \A i \in 1..Len(sections[k]) :
        HasLocationWord(sections[k][i])
            => \E j \in 1..(i - 1) :
                  /\ IsPitchLink(sections[k][j])
                  /\ PitchTextAt(sections[k], j) # <<>>
                  /\ FirstOf({e \in (j + 1)..Len(sections[k]) : IsTag(sections[k][e])}) > i


(***************************************************************************)
(* Properties of v12.1                                                     *)
(***************************************************************************)
\* the list of games the caller received
Returned == IF Served /\ resp.kind = "games" THEN resp.body ELSE <<>>

\* C3: every returned record has a homeTeam that contains "reno apex",
\* letter case ignored, and no returned record has an awayTeam that does.
C3_HomeOnlyFields ==
    \A k \in 1..Len(Returned) :
        /\ FieldContainsFold(Returned[k].HomeTeam, "reno apex")
        /\ ~FieldContainsFold(Returned[k].AwayTeam, "reno apex")

\* C4: no two returned records share date, time and homeTeam (letter case
\* ignored), also when two windows hold the same fixture.
C4_NoDuplicateTriples ==
    \A i, j \in 1..Len(Returned) :
        i < j => ~(/\ Returned[i].Date = Returned[j].Date
                   /\ Returned[i].Time = Returned[j].Time
                   /\ EqualFold(Returned[i].HomeTeam, Returned[j].HomeTeam))

\* C5: no field of a returned record is the empty string.
C5_NoEmptyField ==
    \A k \in 1..Len(Returned) :
        \A f \in {"HomeTeam", "AwayTeam", "Date", "Time", "Location",
                  "Division", "Competition"} : Returned[k][f] # Empty

\* C6: the date of every returned record is the target Saturday or the
\* target Sunday in the form YYYY-MM-DD.
C6_DatesAreTargetDays ==
    \A k \in 1..Len(Returned) :
        Returned[k].Date \in {<<Format("2006-01-02", NextSaturday(now))>>,
                              <<Format("2006-01-02", NextSunday(now))>>}

\* the tracked team's name stands before the first "- " of a line
NameBefore(line) ==
    /\ SepAt(line, 1) # 0
    /\ \E i \in 1..(SepAt(line, 1) - 1) : Within("reno apex", LowerS(line[i].s))

\* the line has a separator and the name, but only after the separator
NameOnlyAfter(line) ==
    /\ SepAt(line, 1) # 0
    /\ ~NameBefore(line)
    /\ \E i \in (SepAt(line, 1) + 1)..Len(line) : Within("reno apex", LowerS(line[i].s))

\* the team names on the two sides of the first separator of a line
HomeOf(line) == Str(ExtractTeamNameFromText(TrimSpace(SplitSep(line)[1])))
AwayOf(line) == Str(ExtractTeamNameFromText(TrimSpace(SplitSep(line)[2])))

\* C18: every record stems from a line that has the tracked team's name
\* before its first "- "; a line that has it only after the separator yields
\* none; and every line of a scanned window that has it before the separator
\* has its record (or an equal earlier one) among the games, whatever lines
\* came before it.
C18_NameBeforeSeparator ==
    /\ \A g \in 1..Len(games) :
          \E k \in 1..Len(cands) : \E l \in 1..Len(SplitLines(sections[k])) :
              /\ NameBefore(SplitLines(sections[k])[l])
              /\ games[g].HomeTeam = HomeOf(SplitLines(sections[k])[l])
              /\ games[g].AwayTeam = AwayOf(SplitLines(sections[k])[l])
    /\ \A k \in 1..Len(cands) : \A l \in 1..Len(SplitLines(sections[k])) :
          (NameBefore(SplitLines(sections[k])[l]) /\ HomeOf(SplitLines(sections[k])[l]) # Empty)
              => \E g \in 1..Len(games) :
                    /\ EqualFold(games[g].HomeTeam, HomeOf(SplitLines(sections[k])[l]))
                    /\ EqualFold(games[g].AwayTeam, AwayOf(SplitLines(sections[k])[l]))

\* a scanned window held an away line of the tracked team and, after it, a
\* home line; the caller received one record, the one of the home line
C18_AwayLineThenHomeLine ==
    /\ Served
    /\ Len(Returned) = 1
    /\ Len(cands) = 1
    /\ \E a, b \in 1..Len(SplitLines(sections[1])) :
          /\ a < b
          /\ NameOnlyAfter(SplitLines(sections[1])[a])
          /\ NameBefore(SplitLines(sections[1])[b])
          /\ Returned[1].HomeTeam = HomeOf(SplitLines(sections[1])[b])

\* the members of a set of indices in ascending order
Ascending(S) == [j \in 1..Cardinality(S) |-> Nth(S, j)]

\* the candidates of a window in document order: the record of every line
\* that has the tracked team's name before its first separator
CandidateGames(section, d) ==
    LET lines == SplitLines(section)
        at == Ascending({l \in 1..Len(lines) :
                            NameBefore(lines[l]) /\ HomeOf(lines[l]) # Empty})
    IN  [j \in 1..Len(at) |->
            ExtractGameFromLine(lines[at[j]], LineContext(lines, at[j] - 1), d)]

\* equal date, equal time, and home and away team equal but for letter case
SameFixture(a, b) ==
    /\ a.Date = b.Date
    /\ a.Time = b.Time
    /\ EqualFold(a.HomeTeam, b.HomeTeam)
    /\ EqualFold(a.AwayTeam, b.AwayTeam)

\* the candidates that have no duplicate before them, in their order
FirstOccurrences(c) ==
    LET at == Ascending({i \in 1..Len(c) : \A j \in 1..(i - 1) : ~SameFixture(c[j], c[i])})
    IN  [j \in 1..Len(at) |-> c[at[j]]]

\* the first occurrences of windows 1..k, window after window
RECURSIVE FirstOccurrencesUpTo(_)
FirstOccurrencesUpTo(k) ==
    IF k = 0 THEN <<>>
    ELSE FirstOccurrencesUpTo(k - 1) \o FirstOccurrences(CandidateGames(sections[k], now))

\* C19: the records of a window are its candidates in document order with
\* every candidate left out that has an earlier candidate of the same
\* window with equal date, equal time and, letter case ignored, equal
\* homeTeam and awayTeam: of each group of duplicates the first is kept.
C19_FirstOccurrenceKept == games = FirstOccurrencesUpTo(Len(cands))

\* one window was scanned that held the same fixture on two lines; the
\* caller received a record, and fewer records than there were candidates
C19_DuplicateLineDropped ==
    /\ Served
    /\ Len(cands) = 1
    /\ Len(Returned) >= 1
    /\ Len(Returned) < Len(CandidateGames(sections[1], now))
    /\ \E i, j \in 1..Len(CandidateGames(sections[1], now)) :
          /\ i < j
          /\ SameFixture(CandidateGames(sections[1], now)[i],
                         CandidateGames(sections[1], now)[j])

\* C25: on every day of the week the offset to the target Saturday is one
\* of 1..7, the target is a Saturday after today, the target Sunday is the
\* day after it and today is neither of them; on a Saturday the target is
\* the Saturday seven days later; the forms of both snapshots are the forms
\* of these two days.
C25_TargetWeekend ==
    /\ Weekday(now) \in 0..6
    /\ DaysUntilSaturday(now) \in 1..7
    /\ NextSaturday(now) = now + DaysUntilSaturday(now)
    /\ Weekday(NextSaturday(now)) = 6
    /\ NextSaturday(now) > now
    /\ NextSunday(now) = NextSaturday(now) + 1
    /\ Weekday(now) = 6 => NextSaturday(now) = now + 7
    /\ now \notin {NextSaturday(now), NextSunday(now)}
    /\ ParseDate("Jan 02, 2006", GetNextWeekendDatesV121(now).sat[3]) = NextSaturday(now)
    /\ ParseDate("Jan 02, 2006", GetNextWeekendDatesV121(now).sun[3]) = NextSunday(now)
    /\ ParseDate("Jan 02, 2006", GetNextWeekendDatesV123(now).sat[1]) = NextSaturday(now)
    /\ ParseDate("Jan 02, 2006", GetNextWeekendDatesV123(now).sun[1]) = NextSunday(now)

\* asked on Saturday Aug 30, the caller received a record of Saturday Sep 6
C25_SaturdayAsksForNextWeek ==
    /\ Served
    /\ Weekday(now) = 6
    /\ \E g \in 1..Len(Returned) :
          Returned[g].Date = <<Format("2006-01-02", now + 7)>>

\* the contexts findDateInContext is called with in one window: the lines
\* around every line that passes the home test
HomeContexts(section) ==
    LET lines == SplitLines(section)
        home  == SelectSeq([i \in 1..Len(lines) |-> i],
                           LAMBDA i : IsHomeLineV121(lines[i]))
    IN  [k \in 1..Len(home) |-> LineContext(lines, home[k] - 1)]

IsISODate(s) == s \in {"2025-08-30", "2025-08-31", "2025-09-06", "2025-09-07"}

\* what the fallback chain gives: Saturday if a Saturday form occurs, else
\* Sunday if a Sunday form occurs, else Saturday
ChainDate(context, d) ==
    LET f == GetNextWeekendDatesV121(d)
    IN  IF ContainsAnyFold(context, f.sat) THEN NextSaturday(d)
        ELSE IF ContainsAnyFold(context, f.sun) THEN NextSunday(d)
        ELSE NextSaturday(d)

DateAsClaimed(context, d) ==
    LET r == FindDateInContextV121(context, d)
        f == GetNextWeekendDatesV121(d)
    IN  /\ Len(r) = 1 /\ IsISODate(r[1])
        /\ FirstParsedDate(context, DatePatternsV121) = -1
              => r = <<Format("2006-01-02", ChainDate(context, d))>>
        /\ (ContainsAnyFold(context, f.sat) /\ ContainsAnyFold(context, f.sun))
              => r = <<Format("2006-01-02", NextSaturday(d))>>

\* C21: for every context findDateInContext was called with, the date is a
\* YYYY-MM-DD string; when no date pattern yields a parseable date it is the
\* target Saturday if a Saturday form occurs in the context, else the target
\* Sunday if a Sunday form occurs, else the target Saturday; and when the
\* context holds both a Saturday and a Sunday form it is the Saturday.
C21_DateFallbackChain ==
    \A k \in 1..(si - 1) : \A c \in 1..Len(HomeContexts(sections[k])) :
        DateAsClaimed(HomeContexts(sections[k])[c], now)

\* the same without the last part: the form and the chain alone
C21_ChainAlone ==
    \A k \in 1..(si - 1) : \A c \in 1..Len(HomeContexts(sections[k])) :
        LET x == HomeContexts(sections[k])[c]
            r == FindDateInContextV121(x, now)
        IN  /\ Len(r) = 1 /\ IsISODate(r[1])
            /\ FirstParsedDate(x, DatePatternsV121) = -1
                  => r = <<Format("2006-01-02", ChainDate(x, now))>>

\* no Saturday or Sunday form of v12.1 occurs in the document
NoTargetDateV121(doc, d) ==
    LET f == GetNextWeekendDatesV121(d)
    IN  ~ContainsAnyFold(doc, f.sat \o f.sun)

\* C7: when the fetched document holds no target date form, the segmenter
\* runs over exactly one window, the entire document.
C7_WholeDocumentFallback ==
    (pc \in {"scan", "respond", "done"} /\ req = "event" /\ remote.ok
        /\ NoTargetDateV121(html, now))
            => sections = <<html>>


(***************************************************************************)
(* The variant with the parse-timeout guard.  No snapshot under src/       *)
(* starts a goroutine; the guard is modelled from section 5 of the         *)
(* specification: the extraction stage runs on a task of its own and the   *)
(* orchestrator waits for its result or for a timer, whichever comes first *)
(***************************************************************************)
\* parseWeekendGames as one computation: the games of every window, appended
RECURSIVE GamesOfSections(_, _)
GamesOfSections(secs, d) ==
    IF secs = <<>> THEN <<>>
    ELSE FindRenoApexGamesInSectionV121(Head(secs), d) \o GamesOfSections(Tail(secs), d)

ParseWeekendGamesV121(doc, d) == GamesOfSections(WeekendSectionsV121(doc, d).secs, d)

GuardBlocks == {MatchLine, AwayLine, HeadSatLong, TimeLine}

\* the orchestrator starts the extraction task and the timer, then waits
StartExtraction ==
    /\ pc = "parse"
    /\ task = "idle"
    /\ task' = "running"
    /\ timer' = "armed"
    /\ pc' = "wait"
    /\ UNCHANGED <<now, remote, req, html, sections, si, cands, games, resp, inbox>>
    /\ UNCHANGED peer

\* the task runs the extraction to its end and delivers the games; on a
\* pathological document this step never happens
ExtractionCompletes ==
    /\ task = "running"
    /\ task' = "finished"
    /\ inbox' = Append(inbox, ParseWeekendGamesV121(html, now))
    /\ UNCHANGED <<now, remote, req, pc, html, sections, si, cands, games, resp, timer>>
    /\ UNCHANGED peer

\* the configured bound has passed
TimerFires ==
    /\ timer = "armed"
    /\ timer' = "fired"
    /\ UNCHANGED <<now, remote, req, pc, html, sections, si, cands, games, resp, task, inbox>>
    /\ UNCHANGED peer

\* the orchestrator takes the games the task delivered
ReceiveResult ==
    /\ pc = "wait"
    /\ inbox # <<>>
    /\ games' = Head(inbox)
    /\ inbox' = Tail(inbox)
    /\ pc' = "respond"
    /\ UNCHANGED <<now, remote, req, html, sections, si, cands, resp, task, timer>>
    /\ UNCHANGED peer

\* an orchestrator that arms the timer again and goes on waiting
TimeOutIgnored ==
    /\ pc = "wait"
    /\ timer = "fired"
    /\ timer' = "armed"
    /\ UNCHANGED <<now, remote, req, pc, html, sections, si, cands, games, resp, task, inbox>>
    /\ UNCHANGED peer

\* the timer came first: the orchestrator stops waiting with no records
TimeOut ==
    /\ pc = "wait"
    /\ timer = "fired"
    /\ games' = <<>>
    /\ pc' = "respond"
    /\ UNCHANGED <<now, remote, req, html, sections, si, cands, resp, task, timer, inbox>>
    /\ UNCHANGED peer

InitGuard == InitWith(DocsOf(GuardBlocks))

\* the steps of the request's own goroutine
OrchestratorStep ==
    \/ HandleRequest
    \/ Fetch
    \/ StartExtraction
    \/ ReceiveResult
    \/ TimeOut
    \/ Respond
    \/ RespondErrorV121

NextGuard ==
    \/ OrchestratorStep
    \/ ExtractionCompletes
    \/ TimerFires

\* the runtime keeps scheduling the request's goroutine and fires an armed
\* timer; nothing makes the extraction task finish
SpecGuard ==
    /\ InitGuard
    /\ [][NextGuard]_vars
    /\ WF_vars(OrchestratorStep)
    /\ WF_vars(TimerFires)

\* the orchestrator stopped waiting without taking a result from the task
TimedOut ==
    /\ pc \in {"respond", "done"}
    /\ req = "event"
    /\ remote.ok
    /\ ~(task = "finished" /\ inbox = <<>>)

\* C8: the extraction runs on a task of its own while the orchestrator
\* waits for its result or for the timer; when the timer comes first the
\* caller receives an empty list with status 200, not an error; and in every
\* execution the caller eventually receives a response, also when the
\* extraction task never finishes.
C8_BoundedExtraction ==
    /\ [](pc = "wait" => (task # "idle" /\ timer # "off"))
    /\ []((TimedOut /\ pc = "done")
            => resp = [status |-> 200, kind |-> "games", body |-> <<>>])
    /\ <>(resp # Pending)

\* the timer came first while the task was still running, and the caller
\* has its answer
C8_TimedOutWhileRunning ==
    /\ pc = "done"
    /\ TimedOut
    /\ task = "running"
    /\ resp.status = 200


(***************************************************************************)
(* v11.0 (src/unnamed/part_002, lines 689-1296): mentions and contexts     *)
(***************************************************************************)
SectionBeforeV110 == 2000
SectionAfterV110 == 5000
ContextBefore == 500
ContextAfter == 1000
MinTeamNameLen == 10
MinOpponentLen == 8

\* saturdayStr and sundayStr of getNextWeekendDates
GetNextWeekendDatesV110(d) ==
    << Format("Jan 02, 2006", NextSaturday(d)), Format("Jan 02, 2006", NextSunday(d)) >>

ExtractSectionAroundDateV110(doc, dateStr) ==
    ExtractSection(doc, dateStr, SectionBeforeV110, SectionAfterV110)

WeekendSectionsV110(doc, d) ==
    CollectSections(doc, GetNextWeekendDatesV110(d), SectionBeforeV110, SectionAfterV110)

\* findAllOccurrences(strings.ToLower(section), "reno apex"): the byte
\* offsets in the lowered copy, one for every token that holds the name
FindAllOccurrences(section, p) ==
    LET low  == ToLower(section)
        hits == SelectSeq([j \in 1..Len(low) |-> j], LAMBDA j : Within(p, low[j].s))
    IN  [k \in 1..Len(hits) |-> SumLen(low, hits[k] - 1) + OffsetIn(p, low[hits[k]].s)]

\* context := section[start:end] of extractGameFromContext; the offset comes
\* from the lowered copy, and Go panics on start > end
ContextAround(section, index) ==
    LET start == Max(index - ContextBefore, 0)
        end   == Min(index + ContextAfter, TextLen(section))
    IN  IF start > end THEN [panic |-> TRUE, text |-> <<>>]
        ELSE [panic |-> FALSE, text |-> Slice(section, start, end)]

\* the tokens that hold a ">", and those that hold a "<"
HasGt(tk) == IsTag(tk) \/ tk.s \in {"#>", "#pitch>"}
HasLt(tk) == IsTag(tk) \/ tk.s \in {"<#", "<a href=#", "<a href=#pitch"}

\* line[start+1 : start+1+end]: the text between the first ">" of a line and
\* the next "<", trimmed; found is FALSE when either is missing
LinkText(line) ==
    LET a == FirstOf({j \in 1..Len(line) : HasGt(line[j])})
        b == FirstOf({j \in (a + 1)..Len(line) : HasLt(line[j])})
    IN  IF a = 0 \/ b = 0 THEN [found |-> FALSE, text |-> <<>>]
        ELSE [found |-> TRUE, text |-> TrimSpace(SubSeq(line, a + 1, b - 1))]

\* extractTeamName(context, hint): the link text of the first line that holds
\* the hint, if it is longer than 10 bytes and holds the hint itself
ExtractTeamName(context, hint) ==
    LET lines == SplitLines(context)
        i == FirstOf({k \in 1..Len(lines) :
                        /\ Contains(ToLower(lines[k]), hint)
                        /\ LinkText(lines[k]).found
                        /\ TextLen(LinkText(lines[k]).text) > MinTeamNameLen
                        /\ Contains(ToLower(LinkText(lines[k]).text), hint)})
    IN  IF i = 0 THEN Empty ELSE Str(LinkText(lines[i]).text)

\* strings.Contains(line, "<a href=")
HasHref(line) ==
    \E j \in 1..Len(line) :
        IsLinkTag(line[j]) \/ line[j].s \in {"<a href=#", "<a href=#pitch"}

\* strings.Contains(line, "schedules?pitch")
HasPitch(line) ==
    \E j \in 1..Len(line) :
        IsPitchLink(line[j]) \/ line[j].s \in {"#pitch>", "<a href=#pitch"}

\* the test a line and its link text pass to be an opponent candidate
IsOpponentLine(line) ==
    LET t == LinkText(TrimSpace(line))
    IN  /\ HasHref(line)
        /\ ~Contains(ToLower(line), "reno")
        /\ ~HasPitch(line)
        /\ t.found
        /\ TextLen(t.text) > MinOpponentLen
        /\ Contains(t.text, " ")
        /\ ~Contains(ToLower(t.text), "reno")
        /\ ~Contains(ToLower(t.text), "field")
        /\ ~Contains(ToLower(t.text), "park")

\* findOpponentInContext: the longest candidate, the first of the longest
FindOpponentInContext(context) ==
    LET lines == SplitLines(context)
        c == SelectSeq(lines, IsOpponentLine)
        best == FirstOf({k \in 1..Len(c) :
                    \A m \in 1..Len(c) :
                        TextLen(LinkText(TrimSpace(c[m])).text)
                            <= TextLen(LinkText(TrimSpace(c[k])).text)})
    IN  IF c = <<>> THEN TBD ELSE Str(LinkText(TrimSpace(c[best])).text)

\* findDateInContext: strings.Contains on the context as it is spelled
FindDateInContextV110(context, d) ==
    LET f == GetNextWeekendDatesV110(d)
    IN  << Format("2006-01-02",
                  IF Contains(context, f[1]) THEN NextSaturday(d)
                  ELSE IF Contains(context, f[2]) THEN NextSunday(d)
                  ELSE NextSaturday(d)) >>

\* the spellings in which the fourth pattern, `(\d{2}:\d{2})`, finds a match
IsClock24(s) == s \in {"14:30"}

\* findTimeInContext: the first pattern is the first pattern of v12.1 and
\* gives the same; what the second and the third match, the first matches as
\* well; the fourth has one group, so matches[0] is returned as it is
\* spelled.  The scan over the words finds nothing the patterns did not
FindTimeInContextV110(context) ==
    LET i == FirstOf({j \in 1..Len(context) : IsClock24(context[j].s)})
    IN  IF FindTimeInContextV121(context) # TBD THEN FindTimeInContextV121(context)
        ELSE IF i = 0 THEN TBD
        ELSE <<context[i].s>>


\* the index of the "-" of the last " - " of a text, 0 if there is none
LastSeparator(location) ==
    LET H == {j \in 2..(Len(location) - 1) :
                /\ location[j].s = "-"
                /\ location[j - 1].s = " "
                /\ location[j + 1].s = " "}
    IN  IF H = {} THEN 0 ELSE CHOOSE i \in H : \A j \in H : j <= i

\* a split at the last " - " instead of the first
VenueAndFieldAtLast(location) ==
    LET i == LastSeparator(location)
    IN  IF i # 0
        THEN [venue |-> Str(TrimSpace(SubSeq(location, 1, i - 2))),
              field |-> Str(TrimSpace(SubSeq(location, i + 2, Len(location))))]
        ELSE IF Contains(ToLower(location), "field")
        THEN [venue |-> Empty, field |-> Str(location)]
        ELSE [venue |-> Str(location), field |-> Empty]

\* strings.SplitN(location, " - ", 2) at the first " - ", both parts trimmed
VenueAndField(location) ==
    LET i == FirstOf({j \in 2..(Len(location) - 1) :
                        /\ location[j].s = "-"
                        /\ location[j - 1].s = " "
                        /\ location[j + 1].s = " "})
    IN  IF i # 0
        THEN [venue |-> Str(TrimSpace(SubSeq(location, 1, i - 2))),
              field |-> Str(TrimSpace(SubSeq(location, i + 2, Len(location))))]
        ELSE IF Contains(ToLower(location), "field")
        THEN [venue |-> Empty, field |-> Str(location)]
        ELSE [venue |-> Str(location), field |-> Empty]

\* findVenueAndFieldInContext: the text of the first pitch link with
\* 5 < len(location) < 100, split; if there is none, the first text with a
\* word of the second pattern (in the documents of the model such a text
\* stands between a tag, or what a cut left of one, and a " " or a tag, and
\* is longer than 5 bytes).  The line fallback needs one of the same words,
\* so it finds nothing the second pattern did not
FindVenueAndFieldInContext(context) ==
    LET i == FirstOf({j \in 1..Len(context) :
                        /\ TextLen(PitchTextAt(context, j)) > 5
                        /\ TextLen(PitchTextAt(context, j)) < 100})
        w == FirstOf({j \in 1..Len(context) : HasLocationWord(context[j])})
    IN  IF i # 0 THEN VenueAndField(PitchTextAt(context, i))
        ELSE IF w # 0 THEN VenueAndField(<<context[w]>>)
        ELSE [venue |-> TBD, field |-> TBD]

\* strings.Split(teamName, "Reno Apex ")[1], trimmed: what follows the club
\* name in a team name; "" when the name is not spelled that way
AfterClubName(s) ==
    CASE s = "Reno Apex U12 Boys" -> "U12 Boys"
      [] OTHER -> ""

\* the team name findDivisionInContext reads from a line: the link text, or
\* the line itself when there is none
TeamNameOfLine(line) ==
    IF LinkText(line).found /\ LinkText(line).text # <<>>
    THEN LinkText(line).text ELSE line

\* the index of the first token at or after `from` that spells the club name
ClubNameAt(name, from) ==
    FirstOf({m \in from..Len(name) : AfterClubName(name[m].s) # ""})

\* parts[1] of the split, up to the next spelling of the club name
RestOfDivision(name, j) ==
    LET e == ClubNameAt(name, j + 1)
    IN  Str(DropTrailing(SubSeq(name, j + 1, IF e = 0 THEN Len(name) ELSE e - 1), "space"))

DivisionOfName(name) ==
    LET j == ClubNameAt(name, 1)
    IN  <<AfterClubName(name[j].s)>> \o RestOfDivision(name, j)

\* a line from whose team name the division is read
NamesDivision(line) ==
    /\ Contains(ToLower(line), "reno apex")
    /\ Contains(ToLower(TeamNameOfLine(line)), "reno apex")
    /\ ClubNameAt(TeamNameOfLine(line), 1) # 0

\* the bytes of the class [\w\s] a token starts with, and whether they
\* reach its end
WordRun(tk) ==
    CASE tk.s \in {" ", "\n", "Reno Apex U12 Boys", "RENO APEX U12 BOYS",
                   "Sacramento United", "Reno Sports Complex",
                   "Sacramento Sports Complex", "Field 1", "U12 Boys Premier",
                   "123"} -> [run |-> <<tk>>, toEnd |-> TRUE]
      [] tk.s = "Aug 30, 2025"    -> [run |-> <<T("Aug 30", 6)>>, toEnd |-> FALSE]
      [] tk.s = "Aug 31, 2025"    -> [run |-> <<T("Aug 31", 6)>>, toEnd |-> FALSE]
      [] tk.s = "August 30, 2025" -> [run |-> <<T("August 30", 9)>>, toEnd |-> FALSE]
      [] tk.s = "Sep 06, 2025"    -> [run |-> <<T("Sep 06", 6)>>, toEnd |-> FALSE]
      [] tk.s \in {"08/30/2025", "08/31/2025"} -> [run |-> <<T("08", 2)>>, toEnd |-> FALSE]
      [] tk.s = "09/06/2025"      -> [run |-> <<T("09", 2)>>, toEnd |-> FALSE]
      [] tk.s \in {"1:00 PM", "1:00PM PDT"} -> [run |-> <<T("1", 1)>>, toEnd |-> FALSE]
      [] tk.s = "14:30"           -> [run |-> <<T("14", 2)>>, toEnd |-> FALSE]
      [] tk.s = "2-1"             -> [run |-> <<T("2", 1)>>, toEnd |-> FALSE]
      [] OTHER                    -> [run |-> <<>>, toEnd |-> FALSE]

\* the bytes of the class [\w\s] from token j on
RECURSIVE WordRunFrom(_, _)
WordRunFrom(text, j) ==
    IF j > Len(text) THEN <<>>
    ELSE IF WordRun(text[j]).toEnd THEN WordRun(text[j]).run \o WordRunFrom(text, j + 1)
    ELSE WordRun(text[j]).run

\* a text the second of divisionPatterns, `(U\d{2}[\w\s]*(?:NPL|Elite|
\* Premier|Gold|Silver|Bronze)[\w\s]*(?:East|West|North|South|Central)?)`,
\* matches from its first byte on.  No text of the model holds four digits
\* or two digits and a B or G before a league word, so the first and the
\* third pattern match nothing; the later ones match only where the second
\* does
IsLeagueText(tk) == tk.s = "U12 Boys Premier"

\* matches[1] of the first of divisionPatterns that matches, trimmed: the
\* league text and the bytes of [\w\s] after it; "" when none matches
DivisionByPattern(context) ==
    LET j == FirstOf({k \in 1..Len(context) : IsLeagueText(context[k])})
    IN  IF j = 0 THEN Empty
        ELSE Str(TrimSpace(<<context[j]>> \o WordRunFrom(context, j + 1)))

\* the patterns tried before the team name
FindDivisionPatternsFirst(context) ==
    LET c == SelectSeq(SplitLines(context), NamesDivision)
    IN  IF DivisionByPattern(context) # Empty THEN DivisionByPattern(context)
        ELSE IF c # <<>> THEN DivisionOfName(TeamNameOfLine(Head(c)))
        ELSE <<"League">>

\* findDivisionInContext: from the first line that holds "reno apex" and
\* spells the club name "Reno Apex ", what follows the club name; else the
\* first pattern that matches; else "League".  The words of the final
\* checks (premier, npl, elite, gold) are matched by the patterns before
FindDivisionInContextV110(context) ==
    LET c == SelectSeq(SplitLines(context), NamesDivision)
    IN  IF c # <<>> THEN DivisionOfName(TeamNameOfLine(Head(c)))
        ELSE IF DivisionByPattern(context) # Empty THEN DivisionByPattern(context)
        ELSE <<"League">>

\* the Game of extractGameFromContext; v11.0 has Venue and Field and no Location
ExtractGameFromContext(context, d) ==
    [HomeTeam    |-> ExtractTeamName(context, "reno apex"),
     AwayTeam    |-> FindOpponentInContext(context),
     Date        |-> FindDateInContextV110(context, d),
     Time        |-> FindTimeInContextV110(context),
     Venue       |-> FindVenueAndFieldInContext(context).venue,
     Field       |-> FindVenueAndFieldInContext(context).field,
     Division    |-> FindDivisionInContextV110(context),
     Competition |-> FindDivisionInContextV110(context)]

\* the loop of findRenoApexGamesInSection over renoIndices from the k-th on
RECURSIVE AddMentionGames(_, _, _, _, _)
AddMentionGames(section, indices, k, acc, d) ==
    IF k > Len(indices) THEN [panic |-> FALSE, games |-> acc]
    ELSE LET c    == ContextAround(section, indices[k])
             game == ExtractGameFromContext(c.text, d)
             keep == /\ game.HomeTeam # Empty
                     /\ FieldContainsFold(game.HomeTeam, "reno apex")
         IN  IF c.panic THEN [panic |-> TRUE, games |-> acc]
             ELSE AddMentionGames(section, indices, k + 1,
                                  IF keep THEN Append(acc, game) ELSE acc, d)

FindRenoApexGamesInSectionV110(section, d) ==
    AddMentionGames(section, FindAllOccurrences(section, "reno apex"), 1, <<>>, d)

\* a schedule page as v11.0 reads it: every team is a link on a line of its
\* own, the home team first
TeamLine(name) == <<tTeamLink, name, tAend, tNL>>
HomeFixture   == TeamLine(tReno) \o TeamLine(tSac)
AwayFixture   == TeamLine(tSac) \o TeamLine(tReno)
SatShortLine  == <<tSatShort, tNL>>
FieldOnlyLine == <<tPitchLink, tField, tAend, tNL>>
Time24Line    == <<tTime24, tNL>>
\* a pitch link and, further on the same line, a team link
ArenaLine     == <<tPitchLink, tArena, tAend, tGap, tTeamLink, tSac, tAend, tNL>>

MentionBlocks ==
    {HomeFixture, AwayFixture, SatShortLine, HeadSun, TimeLine, Time24Line, PitchLine,
     FieldOnlyLine, ArenaLine, PadLine, PadGrowLine}

\* pages with the league on a line of its own and the tracked team spelled
\* in either letter case
UpperFixture  == TeamLine(tRENO) \o TeamLine(tSac)
DivisionLine  == <<tDiv, tNL>>
\* a pitch link whose text holds " - " twice
PitchNumLine  ==
    <<tPitchLink, tVenue, tSP, tDash, tSP, tField, tSP, tDash, tSP, tId, tAend, tNL>>

LeagueBlocks ==
    {HomeFixture, UpperFixture, DivisionLine, SatShortLine, PitchLine, PitchNumLine,
     FieldOnlyLine, PadGrowLine}

\* parseWeekendGames of v11.0 up to the loop over weekendSections
LocateWindowsV110 ==
    /\ pc = "parse"
    /\ LET w == WeekendSectionsV110(html, now)
       IN  IF w.panic
           THEN sections' = sections /\ pc' = "panic"
           ELSE sections' = w.secs /\ pc' = "scan"
    /\ UNCHANGED <<now, remote, req, html, si, cands, games, resp>>
    /\ UNCHANGED guardVars

\* one iteration of `for _, section := range weekendSections`
ScanSectionV110 ==
    /\ pc = "scan"
    /\ si <= Len(sections)
    /\ LET r == FindRenoApexGamesInSectionV110(sections[si], now)
       IN  IF r.panic
           THEN /\ pc' = "panic"
                /\ UNCHANGED <<cands, games, si>>
           ELSE /\ cands' = Append(cands, FindAllOccurrences(sections[si], "reno apex"))
                /\ games' = games \o r.games
                /\ si' = si + 1
                /\ pc' = pc
    /\ UNCHANGED <<now, remote, req, html, sections, resp>>
    /\ UNCHANGED guardVars

\* v11.0: err != nil is logged, games = []Game{} is encoded with status 200
RespondErrorV110 ==
    /\ pc = "failed"
    /\ resp' = [status |-> 200, kind |-> "games", body |-> <<>>]
    /\ pc' = "done"
    /\ UNCHANGED <<now, remote, req, html, sections, si, cands, games>>
    /\ UNCHANGED guardVars

InitV110 == InitWith(DocsOf(MentionBlocks))

NextV110 ==
    \/ HandleRequest
    \/ Fetch
    \/ LocateWindowsV110
    \/ ScanSectionV110
    \/ ReturnGames
    \/ Respond
    \/ RespondErrorV110
    \/ Recover

SpecV110 == InitV110 /\ [][NextV110]_vars

InitLeagueV110 == InitWith(DocsOf(LeagueBlocks))

SpecLeagueV110 == InitLeagueV110 /\ [][NextV110]_vars

(***************************************************************************)
(* Properties of v11.0                                                     *)
(***************************************************************************)
\* every mention of the tracked team is the second team of its fixture: the
\* line before it is the link of another team
TrackedTeamAwayOnly(doc) ==
    \A i \in 1..Len(doc) :
        Within("reno apex", LowerS(doc[i].s))
            => /\ i > 5
               /\ SubSeq(doc, i - 5, i - 1) = TeamLine(tSac) \o <<tTeamLink>>

\* the shape H:MM, one space, AM or PM, and after one more space a zone
IsClockShape(s) == s \in {"1:00 PM", "1:00 PM PDT"}

\* C15: the time of every returned record is "TBD" or has the shape H:MM,
\* a space, AM or PM in upper case, and optionally a space and a zone; no
\* other spelling of a time (no space, lower case, 24-hour) gets through.
C15_TimeNormalized ==
    \A k \in 1..Len(Returned) :
        \/ Returned[k].Time = TBD
        \/ Len(Returned[k].Time) = 1 /\ IsClockShape(Returned[k].Time[1])

\* the contexts extractGameFromContext cuts out of one window, one for
\* every mention of the tracked team
MentionContexts(section) ==
    LET idx == FindAllOccurrences(section, "reno apex")
    IN  [k \in 1..Len(idx) |-> ContextAround(section, idx[k]).text]

\* the link texts of a context that pass the tests of findOpponentInContext
OpponentCandidates(context) ==
    LET c == SelectSeq(SplitLines(context), IsOpponentLine)
    IN  [k \in 1..Len(c) |-> LinkText(TrimSpace(c[k])).text]

\* the name is the text of a pitch link of the window the context was cut from
FromPitchLink(name, section) ==
    \E j \in 1..Len(section) :
        IsPitchLink(section[j]) /\ Str(PitchTextAt(section, j)) = name

OpponentAsClaimed(context, section) ==
    LET r == FindOpponentInContext(context)
        c == OpponentCandidates(context)
    IN  /\ (r = TBD) <=> (c = <<>>)
        /\ r # TBD =>
              \E k \in 1..Len(c) :
                 /\ r = Str(c[k])
                 /\ \A m \in 1..Len(c) : TextLen(c[m]) <= TextLen(c[k])
                 /\ \A m \in 1..(k - 1) : TextLen(c[m]) < TextLen(c[k])
        /\ r # TBD =>
              /\ \A w \in {"reno", "field", "park"} : ~FieldContainsFold(r, w)
              /\ ~FromPitchLink(r, section)

\* C22: for every context findOpponentInContext was called with, the result
\* is "TBD" exactly when no link text qualifies; otherwise it is a qualifying
\* link text of maximal length, the earliest of the longest; it holds none
\* of "reno", "field", "park" in any letter case and is not the text of a
\* pitch link.
C22_OpponentNeverVenue ==
    \A k \in 1..(si - 1) : \A c \in 1..Len(MentionContexts(sections[k])) :
        OpponentAsClaimed(MentionContexts(sections[k])[c], sections[k])

\* the same without the provenance of the name
C22_LongestQualifying ==
    \A k \in 1..(si - 1) : \A c \in 1..Len(MentionContexts(sections[k])) :
        LET x == MentionContexts(sections[k])[c]
            r == FindOpponentInContext(x)
        IN  /\ (r = TBD) <=> (OpponentCandidates(x) = <<>>)
            /\ \A w \in {"reno", "field", "park"} : r # TBD => ~FieldContainsFold(r, w)

\* sanity: a context is cut through filler or a tag, never through a name
NoNameCut ==
    \A k \in 1..(si - 1) : \A c \in 1..Len(MentionContexts(sections[k])) :
        \A i \in 1..Len(MentionContexts(sections[k])[c]) :
            MentionContexts(sections[k])[c][i].s # "#frag"

\* the first token of a context that is the text of an intact team link and
\* spells the club name with a division after it; 0 if there is none
OwnNameAt(context) ==
    FirstOf({i \in 2..Len(context) :
                /\ context[i - 1] = tTeamLink
                /\ AfterClubName(context[i].s) # ""})

DivisionAsClaimed(context) ==
    LET r == FindDivisionInContextV110(context)
        i == OwnNameAt(context)
    IN  /\ r # Empty /\ r # <<"">>
        /\ i # 0 => r = <<AfterClubName(context[i].s)>>
        /\ (i = 0 /\ \E k \in 1..Len(context) : IsLeagueText(context[k]))
              => r = DivisionByPattern(context)
        /\ (i = 0 /\ \A k \in 1..Len(context) : ~IsLeagueText(context[k]))
              => r = <<"League">>

\* C23: for every context findDivisionInContext was called with, the
\* division is the text after the club name in the tracked team's own name
\* when there is such text, whatever league words the context holds;
\* otherwise what the first matching league pattern gives; otherwise
\* "League"; and it is never the empty string.
C23_DivisionOrder ==
    \A k \in 1..(si - 1) : \A c \in 1..Len(MentionContexts(sections[k])) :
        DivisionAsClaimed(MentionContexts(sections[k])[c])

\* the caller has its answer; a scanned context held the tracked team's name
\* with a division after the club name and, elsewhere, a league text, and a
\* returned record has the division of the name
C23_NameBeatsLeagueWord ==
    /\ Served
    /\ \E k \in 1..(si - 1) : \E c \in 1..Len(MentionContexts(sections[k])) :
          /\ OwnNameAt(MentionContexts(sections[k])[c]) # 0
          /\ \E j \in 1..Len(MentionContexts(sections[k])[c]) :
                IsLeagueText(MentionContexts(sections[k])[c][j])
    /\ \E g \in 1..Len(Returned) : Returned[g].Division = <<"U12 Boys">>

\* the location text findVenueAndFieldInContext locates in a context: the
\* text of the first intact pitch link that is longer than 5 and shorter
\* than 100 bytes, else the first text with a location word; <<>> if neither
LocatedText(context) ==
    LET i == FirstOf({j \in 1..Len(context) :
                        /\ TextLen(PitchTextAt(context, j)) > 5
                        /\ TextLen(PitchTextAt(context, j)) < 100})
        w == FirstOf({j \in 1..Len(context) : HasLocationWord(context[j])})
    IN  IF i # 0 THEN Str(PitchTextAt(context, i))
        ELSE IF w # 0 THEN <<context[w].s>>
        ELSE <<>>

HasSeparator(f) ==
    \E j \in 2..(Len(f) - 1) : f[j] = "-" /\ f[j - 1] = " " /\ f[j + 1] = " "

SplitAsClaimed(context) ==
    LET r == FindVenueAndFieldInContext(context)
        t == LocatedText(context)
    IN  /\ t = <<>> => (r.venue = TBD /\ r.field = TBD)
        /\ (t # <<>> /\ HasSeparator(t))
              => /\ r.venue \o <<" ", "-", " ">> \o r.field = t
                 /\ ~HasSeparator(r.venue)
        /\ (t # <<>> /\ ~HasSeparator(t))
              => (r.venue = t /\ r.field = Empty) \/ (r.venue = Empty /\ r.field = t)

\* C24: for every context findVenueAndFieldInContext was called with: a
\* located text with " - " is split at its first " - " into venue and field,
\* and venue, " - ", field put together give the located text; a located
\* text without " - " is one of the two components, whole, the other being
\* empty; when nothing is located both components are "TBD".
C24_VenueFieldSplit ==
    \A k \in 1..(si - 1) : \A c \in 1..Len(MentionContexts(sections[k])) :
        SplitAsClaimed(MentionContexts(sections[k])[c])

\* the caller received a record whose location text held " - " twice: the
\* venue is what stands before the first, the field holds the second
C24_SplitAtFirstOfTwo ==
    /\ Served
    /\ \E g \in 1..Len(Returned) :
          /\ Returned[g].Venue = <<"Reno Sports Complex">>
          /\ Returned[g].Field = <<"Field 1", " ", "-", " ", "123">>

\* C2: when the tracked team is the away side of every fixture of the
\* document, no record is returned; no such fixture comes back with the
\* tracked team as homeTeam.
C2_AwayFixtureNotReturned ==
    (Served /\ resp.kind = "games" /\ TrackedTeamAwayOnly(html)) => resp.body = <<>>


(***************************************************************************)
(* v5.0 (src/main.go, lines 446-1049): three strategies over the whole     *)
(* document, and placeholder games                                         *)
(***************************************************************************)
\* a Game of v5.0, which has Field and Venue and no Location
GameV50(home, away, date, time, field, division, competition) ==
    [HomeTeam    |-> home,
     AwayTeam    |-> away,
     Date        |-> date,
     Time        |-> time,
     Field       |-> field,
     Venue       |-> <<"Reno Sports Complex">>,
     Division    |-> division,
     Competition |-> competition]

\* getPlaceholderGames(eventID) on day d: three games for each of the two
\* event ids the function knows, none for any other
GetPlaceholderGames(eventID, d) ==
    LET sat == <<Format("2006-01-02", NextSaturday(d))>>
        sun == <<Format("2006-01-02", NextSunday(d))>>
        npl == <<"NorCal Premier League">>
    IN  CASE eventID = "44145" ->
               << GameV50(<<"Reno Apex U10 Boys">>, <<"Sacramento Team 1">>, sat,
                          <<"9:00 AM">>, <<"Field 1">>, <<"U10 Boys">>, npl),
                  GameV50(<<"Reno Apex U12 Boys">>, <<"Sacramento Team 2">>, sun,
                          <<"11:00 AM">>, <<"Field 2">>, <<"U12 Boys">>, npl),
                  GameV50(<<"Reno Apex U14 Boys">>, <<"Sacramento Team 3">>, sat,
                          <<"13:00 AM">>, <<"Field 3">>, <<"U14 Boys">>, npl) >>
          [] eventID = "44142" ->
               << GameV50(<<"Reno Apex U10 Girls">>, <<"Folsom Team 1">>, sun,
                          <<"12:00 PM">>, <<"Field 4">>, <<"U10 Girls">>, npl),
                  GameV50(<<"Reno Apex U12 Girls">>, <<"Folsom Team 2">>, sat,
                          <<"14:00 PM">>, <<"Field 5">>, <<"U12 Girls">>, npl),
                  GameV50(<<"Reno Apex U14 Girls">>, <<"Folsom Team 3">>, sun,
                          <<"16:00 PM">>, <<"Field 6">>, <<"U14 Girls">>, npl) >>
          [] OTHER -> <<>>

\* the i-th game (from 0) of the two hard-coded ECNL lists, which differ in
\* their length and in the hour of the kick-off
ECNLGame(i, d, hour) ==
    GameV50(<<"Reno Apex U" \o ToString(15 + i) \o " Girls">>,
            <<"ECNL Opponent " \o ToString(i + 1)>>,
            <<Format("2006-01-02", IF i % 2 = 1 THEN NextSunday(d) ELSE NextSaturday(d))>>,
            <<ToString(hour) \o ":00 PM">>,
            <<"Field " \o <<"A", "B", "C", "D", "E">>[i + 1]>>,
            <<"U" \o ToString(15 + i) \o " Girls">>,
            <<"ECNL Regional League">>)

\* getECNLPlaceholderGames: U15 to U18, at 10, 12, 14 and 16 o'clock
GetECNLPlaceholderGames(d) == [k \in 1..4 |-> ECNLGame(k - 1, d, 10 + (k - 1) * 2)]

\* parseAllRenoApexECNLGames: five hard-coded games, U15 to U19, when the
\* page holds "reno apex", "reno" or "schedule", letter case ignored
ParseAllRenoApexECNLGames(doc, d) ==
    IF \/ Contains(ToLower(doc), "reno apex")
       \/ Contains(ToLower(doc), "reno")
       \/ Contains(ToLower(doc), "schedule")
    THEN [k \in 1..5 |-> ECNLGame(k - 1, d, 10 + (k - 1))]
    ELSE <<>>

\* rowPattern `(?i)<tr[^>]*>(.*?)</tr>` .FindAllString(html, -1) from token
\* p on: "." matches no line feed, so a row ends on the line it starts on
RECURSIVE TableRowsV50(_, _)
TableRowsV50(t, p) ==
    LET i  == NextAt(t, p, "<tr>")
        e  == NextAt(t, i + 1, "</tr>")
        nl == NextAt(t, i + 1, "\n")
    IN  IF i = 0 \/ e = 0 THEN <<>>
        ELSE IF nl # 0 /\ nl < e THEN TableRowsV50(t, i + 1)
        ELSE <<SubSeq(t, i, e)>> \o TableRowsV50(t, e + 1)

\* extractWithRegex(row, `(?i)(reno\s+apex[^<>]*?)(?:\s+vs|\s+@|<)`), cleaned
\* by cleanTeamName: no document of the model holds "vs" or "@", so the group
\* runs from the first "reno apex" to the next tag
HomeTeamOfRowV50(row) ==
    LET j == FirstOf({k \in 1..Len(row) : Within("reno apex", LowerS(row[k].s))})
        e == FirstOf({k \in (j + 1)..Len(row) : IsTag(row[k])})
    IN  IF j = 0 \/ e = 0 THEN Empty
        ELSE Str(TrimSpace(StripTags(TrimSpace(SubSeq(row, j, e - 1)))))

\* what `\d{1,2}:\d{2}\s*[AaPp][Mm]` finds in one spelling, "" if nothing
TimeTextV50(s) ==
    CASE s = "1:00PM PDT" -> "1:00PM"
      [] s = "1:00 PM"    -> "1:00 PM"
      [] OTHER            -> ""

\* extractDateFromHTML: the first `\d{1,2}/\d{1,2}/\d{4}` as it is spelled,
\* or the coming Saturday
ExtractDateFromHTML(text, d) ==
    LET i == FirstOf({k \in 1..Len(text) : MatchesDatePattern("numeric", text[k].s)})
    IN  IF i = 0 THEN <<Format("2006-01-02", NextSaturday(d))>> ELSE <<text[i].s>>

ExtractTimeFromHTML(text) ==
    LET i == FirstOf({k \in 1..Len(text) : TimeTextV50(text[k].s) # ""})
    IN  IF i = 0 THEN TBD ELSE <<TimeTextV50(text[i].s)>>

\* extractFieldFromHTML: "Field " and the word after the first "field"
ExtractFieldFromHTML(text) ==
    LET i == FirstOf({k \in 1..Len(text) : Within("field", LowerS(text[k].s))})
    IN  IF i = 0 THEN TBD ELSE <<"Field 1">>

\* extractDivisionFromTeamName and the same lines of parseWithRegex: "U" and
\* the digits after the first "U", then " Girls" or " Boys"
ExtractDivisionFromTeamName(name) ==
    IF \E k \in 1..Len(name) : name[k] \in {"Reno Apex U12 Boys", "RENO APEX U12 BOYS"}
    THEN <<"U12 Boys">> ELSE <<"Unknown">>

ExtractGameFromTableRow(row, d) ==
    GameV50(HomeTeamOfRowV50(row), Empty, ExtractDateFromHTML(row, d),
            ExtractTimeFromHTML(row), ExtractFieldFromHTML(row),
            ExtractDivisionFromTeamName(HomeTeamOfRowV50(row)),
            <<"NorCal Premier League">>)

ParseTableBasedGames(doc, d) ==
    LET rows == SelectSeq(TableRowsV50(doc, 1),
                          LAMBDA row : /\ Contains(ToLower(row), "reno")
                                       /\ HomeTeamOfRowV50(row) # Empty)
    IN  [k \in 1..Len(rows) |-> ExtractGameFromTableRow(rows[k], d)]

\* where renoPattern of parseWithRegex can end its first group when it starts
\* at token j (0 if nowhere): the first "-" after j with white space before
\* it, white space after it and one more byte that is not "<", no tag between
SeparatorAfter(t, j) ==
    LET g == FirstOf({k \in (j + 1)..Len(t) : IsTag(t[k])})
        e == IF g = 0 THEN Len(t) + 1 ELSE g
    IN  FirstOf({k \in (j + 2)..(e - 3) :
                    t[k].s = "-" /\ IsSpace(t[k - 1]) /\ IsSpace(t[k + 1])})

\* renoPattern.FindAllStringSubmatch(html, -1) from token p on, and the Game
\* of every match: the first group up to the separator, the second from the
\* separator to the next "<" or the end of the page, which is where the
\* search goes on
RECURSIVE ParseWithRegex(_, _, _)
ParseWithRegex(t, p, d) ==
    LET j == FirstOf({k \in p..Len(t) : /\ Within("reno apex", LowerS(t[k].s))
                                        /\ SeparatorAfter(t, k) # 0})
        k == SeparatorAfter(t, j)
        g == FirstOf({m \in (k + 1)..Len(t) : IsTag(t[m])})
        e == IF g = 0 THEN Len(t) + 1 ELSE g
        homeTeam == Str(TrimSpace(SubSeq(t, j, k - 1)))
    IN  IF j = 0 THEN <<>>
        ELSE << GameV50(homeTeam, Str(TrimSpace(SubSeq(t, k + 1, e - 1))),
                        <<Format("2006-01-02", NextSaturday(d))>>, TBD, TBD,
                        ExtractDivisionFromTeamName(homeTeam),
                        <<"NorCal Premier League">>) >>
             \o ParseWithRegex(t, e, d)

\* filterWeekendHomeGames: "reno apex" in homeTeam and the date of the coming
\* Saturday or Sunday, as YYYY-MM-DD, in date
FilterWeekendHomeGames(gs, d) ==
    SelectSeq(gs, LAMBDA g :
        /\ FieldContainsFold(g.HomeTeam, "reno apex")
        /\ g.Date \in {<<Format("2006-01-02", NextSaturday(d))>>,
                       <<Format("2006-01-02", NextSunday(d))>>})

\* parseAllRenoApexGames: the table rows, then (no document of the model
\* holds a "<div") the pattern over the whole page, then the filter
ParseAllRenoApexGames(doc, d) ==
    IF ~Contains(ToLower(doc), "reno apex") /\ ~Contains(ToLower(doc), "reno")
    THEN <<>>
    ELSE FilterWeekendHomeGames(
             IF ParseTableBasedGames(doc, d) # <<>>
             THEN ParseTableBasedGames(doc, d) ELSE ParseWithRegex(doc, 1, d), d)

\* scheduleHandler of v5.0 up to the call of a scraper; "ecnl" has a scraper
\* of its own, which fetches a page as well
HandleRequestV50 ==
    /\ pc = "handler"
    /\ IF req = "missing"
       THEN /\ resp' = [status |-> 400, kind |-> "error", body |-> <<>>]
            /\ pc' = "done"
       ELSE /\ resp' = resp
            /\ pc' = "fetch"
    /\ UNCHANGED <<now, remote, req, html, sections, si, cands, games>>
    /\ UNCHANGED guardVars

\* both scrapers of v5.0 up to bodyStr := string(body): every failure returns
\* the placeholder games and a nil error
FetchV50 ==
    /\ pc = "fetch"
    /\ IF remote.ok
       THEN /\ html' = remote.body
            /\ games' = games
            /\ pc' = "parse"
       ELSE /\ html' = html
            /\ games' = IF req = "ecnl" THEN GetECNLPlaceholderGames(now)
                        ELSE GetPlaceholderGames(req, now)
            /\ pc' = "respond"
    /\ UNCHANGED <<now, remote, req, sections, si, cands, resp>>
    /\ UNCHANGED guardVars

\* the rest of both scrapers: the parsed games, or the placeholder games when
\* there are none
ParseV50 ==
    /\ pc = "parse"
    /\ LET parsed == IF req = "ecnl" THEN ParseAllRenoApexECNLGames(html, now)
                     ELSE ParseAllRenoApexGames(html, now)
       IN  games' = IF parsed # <<>> THEN parsed
                    ELSE IF req = "ecnl" THEN GetECNLPlaceholderGames(now)
                    ELSE GetPlaceholderGames(req, now)
    /\ pc' = "respond"
    /\ UNCHANGED <<now, remote, req, html, sections, si, cands, resp>>
    /\ UNCHANGED guardVars

\* pages as v5.0 reads them: table rows, fixture lines, a numeric date
BlocksV50 == {HomeRow, NumDateRow, AwayRow, MatchLine, AwayLine, SatNumLine, TimeLine,
              PadLine}

\* the event ids of a request: none, "ecnl", the two that have placeholder
\* games and one that has none
RequestsV50 == {"missing", "ecnl", "44145", "44142", "event"}

InitV50 ==
    /\ now \in RequestDays
    /\ req \in RequestsV50
    /\ IF req = "missing" THEN remote = [ok |-> FALSE, body |-> NoDoc]
       ELSE remote \in [ok : {TRUE}, body : DocsOf(BlocksV50)]
                           \cup {[ok |-> FALSE, body |-> NoDoc]}
    /\ pc = "handler"
    /\ html = NoDoc
    /\ sections = <<>>
    /\ si = 1
    /\ cands = <<>>
    /\ games = <<>>
    /\ resp = Pending
    /\ task = "idle"
    /\ timer = "off"
    /\ inbox = <<>>
    /\ peer = NoPeer

NextV50 ==
    \/ HandleRequestV50
    \/ FetchV50
    \/ ParseV50
    \/ Respond

SpecV50 == InitV50 /\ [][NextV50]_vars

\* the spellings of a document
SpellingsOf(doc) == {doc[i].s : i \in 1..Len(doc)}

\* a field value that is made of text of the document
TakenFrom(f, doc) == \A i \in 1..Len(f) : f[i] \in SpellingsOf(doc)

\* C12: the caller only ever receives records whose team names were read
\* from the page that was fetched; when the fetch failed there is no such
\* page and the list is empty.
C12_NoFabricatedRecords ==
    (pc = "done" /\ resp.kind = "games")
        => \A k \in 1..Len(resp.body) :
              /\ TakenFrom(resp.body[k].HomeTeam, html)
              /\ TakenFrom(resp.body[k].AwayTeam, html)

\* the games parseAllRenoApexGames hands to filterWeekendHomeGames
CandidatesV50(doc, d) ==
    IF ParseTableBasedGames(doc, d) # <<>>
    THEN ParseTableBasedGames(doc, d) ELSE ParseWithRegex(doc, 1, d)

\* a game with "reno apex" in homeTeam, letter case ignored, and the
\* YYYY-MM-DD form of the coming Saturday or Sunday in date
IsWeekendHomeGame(g, d) ==
    /\ FieldContainsFold(g.HomeTeam, "reno apex")
    /\ \E k \in 1..Len(g.Date) :
          \/ Within(Format("2006-01-02", NextSaturday(d)), g.Date[k])
          \/ Within(Format("2006-01-02", NextSunday(d)), g.Date[k])

\* the ways a page spells day d
SpellingsOfDay(d) ==
    {Format(layout, d) : layout \in {"Jan 02, 2006", "January 02, 2006", "01/02/2006",
                                      "2006-01-02"}}

\* the table rows of a page that hold a home team and, in some spelling, the
\* coming Saturday or Sunday
TargetRowsV50(doc, d) ==
    SelectSeq(TableRowsV50(doc, 1), LAMBDA row :
        /\ HomeTeamOfRowV50(row) # Empty
        /\ \E k \in 1..Len(row) :
              row[k].s \in SpellingsOfDay(NextSaturday(d)) \cup SpellingsOfDay(NextSunday(d)))

\* a page was parsed for an event that has no placeholder games
ParsedEventV50 == pc = "done" /\ resp.kind = "games" /\ req = "event" /\ remote.ok

\* the games returned are, in their order, the candidates that are weekend
\* home games
C28_FilterExact ==
    ParsedEventV50
        => resp.body = SelectSeq(CandidatesV50(html, now),
                                 LAMBDA g : IsWeekendHomeGame(g, now))

\* C28: filterWeekendHomeGames returns, in input order, exactly the games
\* whose homeTeam holds "reno apex" (letter case ignored) and whose date holds
\* the YYYY-MM-DD form of the target Saturday or Sunday; so a candidate for a
\* fixture of the target weekend is retained whatever the form in which its
\* date was read from the row.
C28_WeekendHomeFilter ==
    ParsedEventV50
        => /\ resp.body = SelectSeq(CandidatesV50(html, now),
                                    LAMBDA g : IsWeekendHomeGame(g, now))
           /\ Len(resp.body) >= Len(TargetRowsV50(html, now))

\* a page whose only row is a home fixture of the target Saturday, dated
\* 08/30/2025, is answered with no record
C28_NumericDateDropped ==
    /\ ParsedEventV50
    /\ html = NumDateRow
    /\ resp.body = <<>>


(***************************************************************************)
(* Properties of the HTTP boundary                                         *)
(***************************************************************************)
\* the request was for an event, the outbound fetch failed (client.Do
\* returned an error, the status was not 200 or the body could not be read)
\* and the handler is done
FetchFailed == pc = "done" /\ req = "event" /\ ~remote.ok

\* C11: when the outbound fetch fails the caller receives a response of the
\* 5xx class with an error body, never a success response with a game list.
C11_TransportErrorIs5xx ==
    FetchFailed => (resp.status >= 500 /\ resp.status <= 599 /\ resp.kind = "error")

\* C13: within one request the extraction starts only after the document was
\* fetched with status 200 and its body read, the games are written to the
\* caller only after every window was scanned, and after a failed fetch the
\* extraction is never entered.
C13_FetchThenParse ==
    /\ (pc \in {"parse", "scan", "panic"} \/ sections # <<>> \/ cands # <<>>)
          => (remote.ok /\ html = remote.body)
    /\ (resp.kind = "games" /\ req = "event" /\ remote.ok)
          => (si = Len(sections) + 1 /\ Len(cands) = Len(sections) /\ resp.body = games)
    /\ ~remote.ok
          => (pc \notin {"parse", "scan", "panic"} /\ sections = <<>> /\ cands = <<>>)

\* a page was fetched, two windows of it were scanned one after the other
\* and the caller has the games found in them
C13_RespondedAfterTwoWindows ==
    /\ Served
    /\ resp.kind = "games"
    /\ Len(cands) = 2
    /\ resp.body # <<>>


(***************************************************************************)
(* Two requests at the same time (v12.1).  net/http serves every request   *)
(* on a goroutine of its own; scheduleHandler and everything it calls keep *)
(* their data in locals, and v12.1 declares no package-level variable      *)
(***************************************************************************)
\* one step of a request whose query, position and locals are the record r:
\* the steps of HandleRequest, Fetch, LocateWindowsV121, ScanSectionV121,
\* ReturnGames, Respond, RespondErrorV121 and Recover
RequestStepV121(r, d) ==
    CASE r.pc = "handler" ->
           IF r.req = "missing"
           THEN [r EXCEPT !.resp = [status |-> 400, kind |-> "error", body |-> <<>>],
                          !.pc = "done"]
           ELSE [r EXCEPT !.pc = IF r.req = "ecnl" THEN "respond" ELSE "fetch"]
      [] r.pc = "fetch" ->
           IF r.remote.ok
           THEN [r EXCEPT !.html = r.remote.body, !.pc = "parse"]
           ELSE [r EXCEPT !.pc = "failed"]
      [] r.pc = "parse" ->
           IF WeekendSectionsV121(r.html, d).panic
           THEN [r EXCEPT !.pc = "panic"]
           ELSE [r EXCEPT !.sections = WeekendSectionsV121(r.html, d).secs, !.pc = "scan"]
      [] r.pc = "scan" ->
           IF r.si <= Len(r.sections)
           THEN [r EXCEPT !.games = r.games
                              \o FindRenoApexGamesInSectionV121(r.sections[r.si], d),
                          !.si = r.si + 1]
           ELSE [r EXCEPT !.pc = "respond"]
      [] r.pc = "respond" ->
           [r EXCEPT !.resp = [status |-> 200, kind |-> "games", body |-> r.games],
                     !.pc = "done"]
      [] r.pc = "failed" ->
           [r EXCEPT !.resp = [status |-> 200, kind |-> "games", body |-> <<>>],
                     !.pc = "done"]
      [] r.pc = "panic" ->
           [r EXCEPT !.resp = [status |-> 0, kind |-> "aborted", body |-> <<>>],
                     !.pc = "done"]

\* a request on arrival
Arrived(query, site) ==
    [req |-> query, remote |-> site, pc |-> "handler", html |-> NoDoc,
     sections |-> <<>>, si |-> 1, games |-> <<>>, resp |-> Pending]

\* the response of a request that is served with no other request in flight
RECURSIVE RunAlone(_, _)
RunAlone(r, d) == IF r.pc = "done" THEN r.resp ELSE RunAlone(RequestStepV121(r, d), d)

\* a handler that keeps the games in a variable both requests append to
PeerStepSharedGames ==
    /\ peer.pc # "done"
    /\ peer' = RequestStepV121(peer, now)
    /\ games' = IF peer.pc = "scan" /\ peer.si <= Len(peer.sections)
                THEN games \o FindRenoApexGamesInSectionV121(peer.sections[peer.si], now)
                ELSE games
    /\ UNCHANGED <<now, remote, req, pc, html, sections, si, cands, resp, task, timer, inbox>>

\* the goroutine of the second request takes a step
PeerStep ==
    /\ peer.pc # "done"
    /\ peer' = RequestStepV121(peer, now)
    /\ UNCHANGED <<now, remote, req, pc, html, sections, si, cands, games, resp, task,
                   timer, inbox>>

PairLen == 2

\* the pages of the two requests: PairLen lines each
PairBlocks == {HeadSatLong, MatchLine, PadGrowLine}
PairDocs == {Flatten(b) : b \in [1..PairLen -> PairBlocks]}

InitPair ==
    /\ InitRequest(PairDocs)
    /\ \/ \E site \in [ok : {TRUE}, body : PairDocs] \cup {[ok |-> FALSE, body |-> NoDoc]} :
             peer = Arrived("event", site)
       \/ \E query \in {"missing", "ecnl"} :
             peer = Arrived(query, [ok |-> FALSE, body |-> NoDoc])

NextPair ==
    \/ HandleRequest
    \/ Fetch
    \/ LocateWindowsV121
    \/ ScanSectionV121
    \/ ReturnGames
    \/ Respond
    \/ RespondErrorV121
    \/ Recover
    \/ PeerStep

SpecPair == InitPair /\ [][NextPair]_vars

\* C14: in every interleaving of two requests each caller receives what its
\* request yields when it is served alone on the page fetched for it.
C14_RequestsIsolated ==
    /\ pc = "done" => resp = RunAlone(Arrived(req, remote), now)
    /\ peer.pc = "done" => peer.resp = RunAlone(Arrived(peer.req, peer.remote), now)

\* both requests were for an event and both callers have their games: two
\* lists that are not empty and differ from each other
C14_BothServedDifferently ==
    /\ Served
    /\ peer.pc = "done"
    /\ peer.req = "event"
    /\ resp.kind = "games"
    /\ peer.resp.kind = "games"
    /\ resp.body # <<>>
    /\ peer.resp.body # <<>>
    /\ resp.body # peer.resp.body


(***************************************************************************)
(* The wall clock during one request (v12.1).  getNextWeekendDates reads   *)
(* time.Now() when parseWeekendGames starts (src/main.go, line 26), and    *)
(* findDateInContext reads it again for every candidate (line 216 and,     *)
(* through getNextWeekendDates, line 26)                                   *)
(***************************************************************************)
\* the day ends; the clock is followed up to Saturday Aug 30, 2025, and from
\* the moment on at which both passes have located their windows
Tick ==
    /\ now < 6
    /\ pc \notin {"handler", "fetch", "parse"}
    /\ peer.pc \notin {"handler", "fetch", "parse"}
    /\ now' = now + 1
    /\ UNCHANGED <<remote, req, pc, html, sections, si, cands, games, resp, task, timer,
                   inbox, peer>>

ClockDays == {4, 5}

ClockBlocks == {MatchLine, HeadSatLong, SatNumLine, PadGrowLine}

\* two passes over the same page that start on the same day
InitClock ==
    /\ InitArrival(ClockDays, DocsOf(ClockBlocks))
    /\ peer = Arrived(req, remote)

NextClock ==
    \/ HandleRequest
    \/ Fetch
    \/ LocateWindowsV121
    \/ ScanSectionV121
    \/ ReturnGames
    \/ Respond
    \/ RespondErrorV121
    \/ Recover
    \/ PeerStep
    \/ Tick

SpecClock == InitClock /\ [][NextClock]_vars

\* C26: two passes over the same document that located their windows with
\* the same target dates return the same records, also when the day changes
\* between the location of the windows and the extraction of the dates.
C26_ClockIndependent ==
    (pc = "done" /\ peer.pc = "done") => resp = peer.resp

(***************************************************************************)
(* The encoded body of a response (v12.1)                                  *)
(***************************************************************************)
\* the slice scheduleHandler hands to Encode is nil: parseWeekendGames declares
\* `var games []Game` and only appends to it, so after a fetch that succeeded
\* it returns nil when nothing was appended; scrapeECNLSchedule and the
\* err != nil branch of the handler make a []Game{}
EncodesNilSlice ==
    /\ resp.kind = "games"
    /\ resp.body = <<>>
    /\ req # "ecnl"
    /\ remote.ok

\* json.NewEncoder(w).Encode(games): null for a nil slice, an array for every
\* other slice
EncodeGames(isNil, gs) ==
    IF isNil THEN "null" ELSE IF gs = <<>> THEN "[]" ELSE "[...]"

\* what the caller reads as the body of a response with a list
WireBody == EncodeGames(EncodesNilSlice, resp.body)

\* C29: whenever a fetch that succeeded is followed by an extraction that
\* finds no record, the body of the response is an empty JSON array, not
\* null and not an object.
C29_EmptyArrayOnNoResults ==
    (pc = "done" /\ resp.kind = "games" /\ remote.ok /\ games = <<>>)
        => WireBody = "[]"

\* a page was fetched and parsed, no record was found and the body is null
C29_NullOnNoResults ==
    /\ pc = "done" /\ resp.kind = "games" /\ remote.ok
    /\ html = remote.body
    /\ games = <<>>
    /\ WireBody = "null"

\* a fetch that failed and a request for "ecnl" are answered with an empty
\* array
C29_EmptyArrayOtherwise ==
    (pc = "done" /\ resp.kind = "games" /\ ~remote.ok) => WireBody = "[]"

(***************************************************************************)
(* v6.0: every strategy over the whole page (src/unnamed/part_002:1-688)   *)
(***************************************************************************)
tTable    == T("<table>", 7)
tTableEnd == T("</table>", 8)
tDivGame  == T("<div class=\"game\">", 18)
tDivEnd   == T("</div>", 6)
tVs       == T("vs", 2)

\* the bytes before and after a match in which its date, time, field and
\* venue are looked for
NearbyWindowV60 == 200

GameV60(home, away, date, time, field, venue, division) ==
    [HomeTeam    |-> home,
     AwayTeam    |-> away,
     Date        |-> date,
     Time        |-> time,
     Field       |-> field,
     Venue       |-> venue,
     Division    |-> division,
     Competition |-> <<"NorCal Premier League">>]

\* tokens a..b of a text with every white space made a space and every white
\* space that follows white space left out
RECURSIVE NormalizeRange(_, _, _)
NormalizeRange(h, a, b) ==
    IF a > b THEN <<>>
    ELSE IF a = b
    THEN (IF ~IsSpace(h[a]) THEN <<h[a]>>
          ELSE IF a > 1 /\ IsSpace(h[a - 1]) THEN <<>> ELSE <<tSP>>)
    ELSE NormalizeRange(h, a, (a + b) \div 2) \o NormalizeRange(h, (a + b) \div 2 + 1, b)

\* the first lines of parseGotSportHTML: every line break becomes a space and
\* every run of white space one space
NormalizeV60(h) == NormalizeRange(h, 1, Len(h))

\* cleanText of v6.0: the tags removed, runs of white space made one space,
\* the ends trimmed
CleanTextV60(text) == Str(TrimSpace(NormalizeV60(StripTags(text))))

\* FindAllStringSubmatch of `<open[^>]*>(.*?)</close>` from token p on: what
\* stands between every opening tag and the first closing tag after it
RECURSIVE ElementsV60(_, _, _, _)
ElementsV60(t, p, open, close) ==
    LET i == NextAt(t, p, open)
        e == IF i = 0 THEN 0 ELSE NextAt(t, i + 1, close)
    IN  IF e = 0 THEN <<>>
        ELSE <<SubSeq(t, i + 1, e - 1)>> \o ElementsV60(t, e + 1, open, close)

\* what datePattern.FindString returns on one spelling ("" if nothing)
DateTextV60(s) ==
    IF s \in {"08/30/2025", "08/31/2025", "09/06/2025", "Aug 30, 2025",
              "Aug 31, 2025", "August 30, 2025", "Sep 06, 2025"}
    THEN s ELSE ""

\* what timePattern.FindString returns on one spelling
TimeTextV60(s) ==
    CASE s = "1:00PM PDT" -> "1:00PM"
      [] s = "1:00 PM"    -> "1:00 PM"
      [] OTHER            -> ""

IsDateFormat(text) == \E k \in 1..Len(text) : DateTextV60(text[k]) # ""
IsTimeFormat(text) == \E k \in 1..Len(text) : TimeTextV60(text[k]) # ""

ExtractDateFromText(text) ==
    LET i == FirstOf({k \in 1..Len(text) : DateTextV60(text[k].s) # ""})
    IN  IF i = 0 THEN Empty ELSE <<DateTextV60(text[i].s)>>

ExtractTimeFromText(text) ==
    LET i == FirstOf({k \in 1..Len(text) : TimeTextV60(text[k].s) # ""})
    IN  IF i = 0 THEN Empty ELSE <<TimeTextV60(text[i].s)>>

\* "Field " and the run after the first "field"
ExtractFieldFromText(text) ==
    IF \E k \in 1..Len(text) : text[k].s = "Field 1" THEN <<"Field 1">> ELSE Empty

\* what follows the first "venue", "location" or "at", letter case ignored:
\* no spelling of the pages of v6.0 holds one of them
ExtractVenueFromText(text) == Empty

\* extractDivision: "U" and the digits after the first "U" that has digits,
\* then " Girls" or " Boys"
ExtractDivisionV60(name) ==
    IF \E k \in 1..Len(name) : name[k] \in {"Reno Apex U12 Boys", "RENO APEX U12 BOYS"}
    THEN <<"U12 Boys">> ELSE Empty

\* the loop of extractGameFromRow over cellTexts from cell i on
RECURSIVE CellLoopV60(_, _, _)
CellLoopV60(texts, i, g) ==
    IF i > Len(texts) THEN g
    ELSE CellLoopV60(texts, i + 1,
             IF texts[i] = Empty THEN g
             ELSE IF FieldContainsFold(texts[i], "reno apex")
             THEN [g EXCEPT !.HomeTeam = texts[i],
                            !.AwayTeam = IF i + 1 <= Len(texts) THEN texts[i + 1] ELSE @]
             ELSE IF IsDateFormat(texts[i]) THEN [g EXCEPT !.Date = texts[i]]
             ELSE IF IsTimeFormat(texts[i]) THEN [g EXCEPT !.Time = texts[i]]
             ELSE IF FieldContainsFold(texts[i], "field") THEN [g EXCEPT !.Field = texts[i]]
             ELSE g)

ExtractGameFromRow(rowHTML) ==
    LET cells == ElementsV60(rowHTML, 1, "<td>", "</td>")
        cellTexts == [k \in 1..Len(cells) |-> CleanTextV60(cells[k])]
        g == CellLoopV60(cellTexts, 1,
                         [HomeTeam |-> Empty, AwayTeam |-> Empty, Date |-> Empty,
                          Time |-> Empty, Field |-> Empty])
    IN  IF Len(cellTexts) < 2
        THEN [HomeTeam |-> Empty, AwayTeam |-> Empty, Date |-> Empty, Time |-> Empty,
              Field |-> Empty, Venue |-> Empty, Division |-> Empty, Competition |-> Empty]
        ELSE GameV60(g.HomeTeam, g.AwayTeam, g.Date, g.Time, g.Field, Empty,
                     ExtractDivisionV60(g.HomeTeam))

\* extractFromTables: the rows of every table that hold "reno", each read by
\* extractGameFromRow and kept if it has a home team
ExtractFromTables(h) ==
    LET tables == ElementsV60(h, 1, "<table>", "</table>")
        rows == Flatten([k \in 1..Len(tables) |-> ElementsV60(tables[k], 1, "<tr>", "</tr>")])
        reno == SelectSeq(rows, LAMBDA r : Contains(ToLower(r), "reno"))
        gs == [k \in 1..Len(reno) |-> ExtractGameFromRow(reno[k])]
    IN  SelectSeq(gs, LAMBDA g : g.HomeTeam # Empty)

\* extractGameFromDiv: the home team from the first "Reno Apex" up to " vs"
\* or the next tag, the away team from after the first "vs " up to the next
\* tag or the end
ExtractGameFromDiv(divHTML) ==
    LET i == FirstOf({k \in 1..Len(divHTML) : Within("reno apex", LowerS(divHTML[k].s))})
        j == FirstOf({k \in (i + 1)..Len(divHTML) :
                         \/ IsTag(divHTML[k])
                         \/ divHTML[k].s = "vs" /\ k > 1 /\ IsSpace(divHTML[k - 1])})
        homeTeam == IF i = 0 \/ j = 0 THEN <<>>
                    ELSE TrimSpace(SubSeq(divHTML, i, j - 1))
        v == FirstOf({k \in 1..(Len(divHTML) - 2) :
                         /\ divHTML[k].s = "vs"
                         /\ IsSpace(divHTML[k + 1])
                         /\ ~IsTag(divHTML[k + 2])})
        g == FirstOf({k \in (v + 2)..Len(divHTML) : IsTag(divHTML[k])})
        e == IF g = 0 THEN Len(divHTML) + 1 ELSE g
        awayTeam == IF v = 0 THEN <<>> ELSE TrimSpace(SubSeq(divHTML, v + 2, e - 1))
    IN  GameV60(CleanTextV60(homeTeam), CleanTextV60(awayTeam),
                ExtractDateFromText(divHTML), ExtractTimeFromText(divHTML),
                ExtractFieldFromText(divHTML), ExtractVenueFromText(divHTML),
                ExtractDivisionV60(Str(homeTeam)))

\* extractFromDivs: the same for every div of class game that holds "reno"
ExtractFromDivs(h) ==
    LET divs == ElementsV60(h, 1, "<div class=\"game\">", "</div>")
        reno == SelectSeq(divs, LAMBDA r : Contains(ToLower(r), "reno"))
        gs == [k \in 1..Len(reno) |-> ExtractGameFromDiv(reno[k])]
    IN  SelectSeq(gs, LAMBDA g : g.HomeTeam # Empty)

\* extractFromJSON logs what its patterns find and appends nothing
ExtractFromJSON(h) == <<>>

\* html[max(0, index-200):min(len(html), index+200)] for index the first
\* place at which the text of tokens a..b stands in html
NearbyV60(h, a, b) ==
    LET j == FirstOf({m \in 1..a : SubSeq(h, m, m + (b - a)) = SubSeq(h, a, b)})
        index == SumLen(h, j - 1)
    IN  Slice(h, Max(0, index - NearbyWindowV60), Min(TextLen(h), index + NearbyWindowV60))

\* the Game extractWithPatterns makes of a match that is tokens a..b
PatternGameV60(h, a, b, homeTeam, awayTeam) ==
    GameV60(CleanTextV60(homeTeam), awayTeam,
            ExtractDateFromText(NearbyV60(h, a, b)), ExtractTimeFromText(NearbyV60(h, a, b)),
            ExtractFieldFromText(NearbyV60(h, a, b)), ExtractVenueFromText(NearbyV60(h, a, b)),
            ExtractDivisionV60(Str(homeTeam)))

\* the bytes of a spelling up to its first white space: what `([^<>\n]+?)`
\* takes before `(?:\s|<|$)`; "" where the spelling starts with "<"
FirstWord(s) ==
    CASE s = "Sacramento United"  -> "Sacramento"
      [] s = "Reno Apex U12 Boys" -> "Reno"
      [] s = "RENO APEX U12 BOYS" -> "RENO"
      [] OTHER                    -> ""

\* a byte v or V in a token: where `[^v]*?` stops
HasV(tk) == tk.s \in {"vs", "<div class=\"game\">", "</div>"}

\* pattern 1 of extractWithPatterns from token p on: "Reno Apex", anything
\* without a v, " vs " and the first word after it
RECURSIVE PatternVsV60(_, _)
PatternVsV60(h, p) ==
    LET i == FirstOf({k \in p..Len(h) : Within("reno apex", LowerS(h[k].s))})
        v == FirstOf({k \in (i + 2)..(Len(h) - 2) :
                         h[k].s = "vs" /\ IsSpace(h[k - 1]) /\ IsSpace(h[k + 1])})
        ok == /\ \A k \in (i + 1)..(v - 2) : ~HasV(h[k])
              /\ FirstWord(h[v + 2].s) # ""
    IN  IF i = 0 \/ v = 0 THEN <<>>
        ELSE IF ~ok THEN PatternVsV60(h, i + 1)
        ELSE <<PatternGameV60(h, i, v + 2, TrimSpace(SubSeq(h, i, v - 2)),
                              <<FirstWord(h[v + 2].s)>>)>>
             \o PatternVsV60(h, v + 3)

\* pattern 3: a cell of text that holds "Reno Apex" and the cell of text
\* after it
RECURSIVE PatternCellsV60(_, _)
PatternCellsV60(h, p) ==
    LET i == FirstOf({k \in p..(Len(h) - 5) :
                         /\ h[k].s = "<td>" /\ h[k + 2].s = "</td>"
                         /\ h[k + 3].s = "<td>" /\ h[k + 5].s = "</td>"
                         /\ ~IsTag(h[k + 1]) /\ ~IsTag(h[k + 4])
                         /\ Within("reno apex", LowerS(h[k + 1].s))})
    IN  IF i = 0 THEN <<>>
        ELSE <<PatternGameV60(h, i, i + 5, <<h[i + 1]>>, CleanTextV60(<<h[i + 4]>>))>>
             \o PatternCellsV60(h, i + 6)

\* extractWithPatterns: the matches of pattern 1, of pattern 2 ("Home:",
\* which no page of the model holds) and of pattern 3, in this order
ExtractWithPatterns(h) == PatternVsV60(h, 1) \o PatternCellsV60(h, 1)

FilterForRenoApexHomeGames(gs) ==
    SelectSeq(gs, LAMBDA g : FieldContainsFold(g.HomeTeam, "reno apex"))

\* parseGotSportHTML: the four strategies, each over the whole page, their
\* games appended one list after the other, then the filter
ParseGotSportHTML ==
    /\ pc = "parse"
    /\ LET h == NormalizeV60(html)
           found == <<ExtractFromTables(h), ExtractFromDivs(h), ExtractFromJSON(h),
                      ExtractWithPatterns(h)>>
       IN  /\ cands' = found
           /\ games' = FilterForRenoApexHomeGames(found[1] \o found[2] \o found[3] \o found[4])
    /\ pc' = "respond"
    /\ UNCHANGED <<now, remote, req, html, sections, si, resp>>
    /\ UNCHANGED guardVars

TableHomeV60 == <<tTable, tTR, tTD, tReno, tTDend, tTD, tSac, tTDend, tTRend, tTableEnd, tNL>>
TableAwayV60 == <<tTable, tTR, tTD, tSac, tTDend, tTD, tReno, tTDend, tTRend, tTableEnd, tNL>>
DivHomeV60   == <<tDivGame, tReno, tSP, tVs, tSP, tSac, tDivEnd, tNL>>
VsLineV60    == <<tReno, tSP, tVs, tSP, tSac, tNL>>

BlocksV60 == {TableHomeV60, TableAwayV60, DivHomeV60, VsLineV60, SatNumLine, TimeLine}

\* v6.0 answers "ecnl" from another site with a parser of its own; the
\* requests of the model are for an event
InitV60 ==
    /\ InitArrival(RequestDays, DocsOf(BlocksV60))
    /\ req # "ecnl"
    /\ peer = NoPeer

NextV60 ==
    \/ HandleRequest
    \/ Fetch
    \/ ParseGotSportHTML
    \/ Respond
    \/ RespondErrorV110

SpecV60 == InitV60 /\ [][NextV60]_vars

\* C27: in the multi-strategy parsers a later strategy (divs, embedded data,
\* patterns) contributes candidates only when every earlier strategy produced
\* none, so the records returned never come from two strategies.
C27_OrderedFallback ==
    (pc \in {"respond", "done"} /\ cands # <<>>)
        => \A i \in 1..Len(cands) : \A j \in (i + 1)..Len(cands) :
              cands[j] # <<>> => cands[i] = <<>>

\* the records of the response come from the table strategy and from the
\* pattern strategy
C27_TwoStrategiesReturned ==
    /\ pc = "done" /\ resp.kind = "games" /\ cands # <<>>
    /\ \E k \in 1..Len(resp.body) : resp.body[k] \in {cands[1][m] : m \in 1..Len(cands[1])}
    /\ \E k \in 1..Len(resp.body) : resp.body[k] \in {cands[4][m] : m \in 1..Len(cands[4])}
    /\ Len(resp.body) = Len(cands[1]) + Len(cands[4])

====
